---------------------------- MODULE Spec2Model ----------------------------
(***************************************************************************)
(* Audit rule evaluation and category linkage of the expense system.       *)
(*                                                                         *)
(*   evaluateRules          the rule evaluator (rule engine service)       *)
(*   getActiveRulesForType  the category resolver (UploadReceipt)          *)
(*   db.init                seeding and the linkedRuleIds migration        *)
(*   RuleConfig             the configuration handlers (rules, categories) *)
(*                                                                         *)
(* Strings the code takes apart (includes, toLowerCase, Number, Date) are  *)
(* sequences of one-character strings; identifiers and names that the code *)
(* only compares are plain strings.  An optional value (activeRuleIds?,    *)
(* linkedRuleIds?) is Undefined or Some(v).                                *)
(***************************************************************************)
EXTENDS Integers, Sequences, FiniteSets, TLC

VARIABLES
  \* ---- one evaluation (UploadReceipt calling the rule engine) ----
  data,            \* ReceiptData handed to evaluateRules
  rules,           \* App state: the rule catalog (AuditRule[])
  requestTypes,    \* App state: the category catalog (RequestType[])
  activeRuleIds,   \* the optional third argument of evaluateRules
  hostZone,        \* the host's offset from UTC in hours (environment)
  result,          \* the AuditResult returned by the last call
  pc,              \* position of the caller
  \* ---- the active queue item of UploadReceipt and the App around it ----
  requestType,     \* activeItem.requestType (a category name)
  auditViolations, \* activeItem.auditViolations
  itemStatus,      \* activeItem.status
  requests,        \* App state: the submitted requests
  currentUser,     \* App state: the user signed in
  \* ---- persistent store (AlaSQL tables in localStorage) ----
  tblRules,        \* table rules
  tblTypes,        \* table request_types
  initialized,     \* db.initialized
  dbPc,            \* position of the running db.init ("idle": none runs)
  updatedTypes,    \* db.init's local updatedTypes
  preTypes,        \* history: request_types as the running db.init found it
  \* ---- RuleConfig component state ----
  editingTypeId,   \* category being edited, or NoId
  editTypeRules,   \* temp selection of the open category edit
  deletedIds,      \* history: ids of rules deleted from the catalog
  nextId,          \* stands for Date.now(): ids handed out so far
  editingRuleId,   \* rule being edited in the rule form, or NoId
  \* ---- App navigation and callbacks in flight ----
  activeTab,       \* App state: the page shown
  reading,         \* the rule file a FileReader of handleImport is reading
  isDbReady,       \* App state: initData has loaded the catalogs
  \* ---- ReimbursementList component state and status updates in flight ----
  selectedRequestId, \* request shown in the detail view, or NoId
  viewMode,          \* 'audit' (requests of others) or 'my'
  confirmAction,     \* the action the confirmation dialog asks about
  inflight,          \* handleStatusUpdate calls waiting at await db.updateRequest
  \* ---- UploadReceipt component state, its draft and its running calls ----
  items,           \* the upload queue (QueueItem[])
  activeItemId,    \* the item shown in the review step, or NoId
  step,            \* 'upload' or 'review'
  isProcessing,    \* a processQueue is running
  isParsingFiles,  \* a processFiles is running
  saveTimer,       \* the auto-save timeout is pending
  run,             \* the processQueue waiting at await extractReceiptData
  drafts,          \* localStorage[STORAGE_KEY]
  madeItems        \* history: number of queue items created so far

evalVars == <<data, rules, requestTypes, activeRuleIds, hostZone, result, pc>>
itemVars == <<requestType, auditViolations, itemStatus>>
appVars  == <<requests, currentUser>>
dbVars   == <<tblRules, tblTypes, initialized, dbPc, updatedTypes, preTypes>>
cfgVars  == <<editingTypeId, editTypeRules, deletedIds, nextId, editingRuleId>>
roleVars == <<activeTab, reading>>
lifeVars == <<isDbReady>>
flowVars == <<selectedRequestId, viewMode, confirmAction, inflight>>
uploadVars == <<items, activeItemId, step, isProcessing, isParsingFiles,
                saveTimer, run>>
queueVars == <<uploadVars, drafts, madeItems>>
extVars  == <<roleVars, lifeVars, flowVars, queueVars>>

vars == <<evalVars, itemVars, appVars, dbVars, cfgVars, extVars>>

-----------------------------------------------------------------------------
(* Optional values *)

Undefined == [def |-> FALSE]
Some(v)   == [def |-> TRUE, v |-> v]

NoId == "none"

-----------------------------------------------------------------------------
(* JavaScript string and number primitives used by the code *)

\* String.prototype.toLowerCase on the characters the model uses
LowerChar(c) ==
  CASE c = "A" -> "a"
    [] c = "B" -> "b"
    [] c = "T" -> "t"
    [] c = "M" -> "m"
    [] c = "U" -> "u"
    [] OTHER   -> c

toLowerCase(s) == [i \in 1..Len(s) |-> LowerChar(s[i])]

\* String.prototype.includes: t occurs in s as a contiguous substring
includes(s, t) ==
  \E i \in 1..(Len(s) - Len(t) + 1) : SubSeq(s, i, i + Len(t) - 1) = t

Range(seq) == { seq[i] : i \in 1..Len(seq) }

\* Array.prototype.includes
arrIncludes(arr, x) == \E i \in 1..Len(arr) : arr[i] = x

Digits == <<"0", "1", "2", "3", "4", "5", "6", "7", "8", "9">>
IsDigit(c) == \E i \in 1..10 : Digits[i] = c
DigitVal(c) == (CHOOSE i \in 1..10 : Digits[i] = c) - 1

RECURSIVE DigitsToNat(_)
DigitsToNat(s) ==
  IF Len(s) = 0 THEN 0
  ELSE 10 * DigitsToNat(SubSeq(s, 1, Len(s) - 1)) + DigitVal(s[Len(s)])

RECURSIVE NatToDigits(_)
NatToDigits(n) ==
  IF n < 10 THEN <<Digits[n + 1]>>
  ELSE Append(NatToDigits(n \div 10), Digits[(n % 10) + 1])

\* A number is [t |-> "number", n |-> Int], NaN or Undef; a string value is
\* [t |-> "string", s |-> chars].
NumV(n) == [t |-> "number", n |-> n]
StrV(s) == [t |-> "string", s |-> s]
NaN     == [t |-> "NaN"]

\* Number(v): a number is itself, "" is 0, a digit string its value, any
\* other string NaN
Number(v) ==
  IF v.t = "number" THEN v
  ELSE IF v.t = "string" THEN
         IF Len(v.s) = 0 THEN NumV(0)
         ELSE IF \A i \in 1..Len(v.s) : IsDigit(v.s[i]) THEN NumV(DigitsToNat(v.s))
         ELSE NaN
  ELSE NaN

\* String(v): a string is itself, a non-negative integer its decimal digits
String(v) ==
  IF v.t = "string" THEN v.s
  ELSE IF v.t = "number" THEN NatToDigits(v.n)
  ELSE <<"N", "a", "N">>

\* mutant: >= in place of >
Greater_OrEqual(a, b) == a.t = "number" /\ b.t = "number" /\ a.n >= b.n

\* a > b on JavaScript numbers: false when either side is NaN or undefined
Greater(a, b) == a.t = "number" /\ b.t = "number" /\ a.n > b.n

-----------------------------------------------------------------------------
(* Date: new Date(string), getTime, getDay.  Time is counted in hours    *)
(* since 1970-01-01T00:00Z.                                              *)

IsLeap(y) == (y % 4 = 0 /\ y % 100 # 0) \/ y % 400 = 0

DaysInMonth(y, m) ==
  IF m = 2 THEN (IF IsLeap(y) THEN 29 ELSE 28)
  ELSE IF m \in {4, 6, 9, 11} THEN 30 ELSE 31

\* days from 1970-01-01 to the civil date y-m-d (proleptic Gregorian)
DaysFromCivil(y, m, d) ==
  LET yy  == IF m <= 2 THEN y - 1 ELSE y
      era == yy \div 400
      yoe == yy - era * 400
      mp  == (m + 9) % 12
      doy == (153 * mp + 2) \div 5 + d - 1
      doe == yoe * 365 + yoe \div 4 - yoe \div 100 + doy
  IN  era * 146097 + doe - 719468

\* the date-only ISO form YYYY-MM-DD
IsIsoDate(s) ==
  /\ Len(s) = 10
  /\ s[5] = "-" /\ s[8] = "-"
  /\ \A i \in {1, 2, 3, 4, 6, 7, 9, 10} : IsDigit(s[i])

\* new Date(s).getTime(): a date-only ISO string is midnight UTC of that
\* day; a string that is no date, or names no calendar day, is NaN
DateGetTime(s) ==
  IF ~IsIsoDate(s) THEN NaN
  ELSE LET y == DigitsToNat(SubSeq(s, 1, 4))
           m == DigitsToNat(SubSeq(s, 6, 7))
           d == DigitsToNat(SubSeq(s, 9, 10))
       IN  IF m \in 1..12 /\ d \in 1..DaysInMonth(y, m)
           THEN NumV(24 * DaysFromCivil(y, m, d))
           ELSE NaN

\* Date.prototype.getDay(): the day of the week (0 Sunday .. 6 Saturday) of
\* the instant in the host's local time zone
getDay(time, zone) ==
  LET localDay == (time.n + zone) \div 24
  IN  (localDay + 4) % 7

-----------------------------------------------------------------------------
(* Rule types and the literals the engine compares with *)

MAX_AMOUNT         == "MAX_AMOUNT"
FORBIDDEN_CATEGORY == "FORBIDDEN_CATEGORY"
WEEKEND_BAN        == "WEEKEND_BAN"
REQUIRED_FIELD     == "REQUIRED_FIELD"

RuleType == {MAX_AMOUNT, FORBIDDEN_CATEGORY, WEEKEND_BAN, REQUIRED_FIELD}

ALL      == <<"A", "L", "L">>
Merchant == <<"M", "e", "r", "c", "h", "a", "n", "t">>
Unknown  == <<"U", "n", "k", "n", "o", "w", "n">>
\* the two-character Chinese placeholder for "unknown" (U+672A U+77E5)
WeiZhi   == <<"U672A", "U77E5">>

\* RULE_WEIGHTS[type]; 0 stands for the lookup of a missing key
RULE_WEIGHTS(type) ==
  CASE type = FORBIDDEN_CATEGORY -> 100
    [] type = MAX_AMOUNT         -> 60
    [] type = WEEKEND_BAN        -> 30
    [] type = REQUIRED_FIELD     -> 20
    [] OTHER                     -> 0

Min(a, b) == IF a < b THEN a ELSE b
Max(a, b) == IF a > b THEN a ELSE b

-----------------------------------------------------------------------------
(* evaluateRules *)

\* mutant: the enabled filter left out
enabledRules_Unfiltered(rs) == rs

\* const activeRules = rules.filter(r => r.enabled)
enabledRules(rs) == SelectSeq(rs, LAMBDA r : r.enabled)

\* mutant: an empty list treated like an omitted one
notActivated_EmptyAsOmitted(rule, active) ==
  active.def /\ Len(active.v) > 0 /\ ~arrIncludes(active.v, rule.id)

\* mutant: an omitted list treated like an empty one
notActivated_OmittedAsEmpty(rule, active) ==
  IF active.def THEN ~arrIncludes(active.v, rule.id) ELSE TRUE

\* mutant: the list read as a list of rules to leave out
notActivated_AsExclusion(rule, active) ==
  active.def /\ arrIncludes(active.v, rule.id)

\* mutant: only the head of the list is looked at
notActivated_HeadOnly(rule, active) ==
  active.def /\ (Len(active.v) = 0 \/ active.v[1] # rule.id)

\* step 1: activeRuleIds is given and does not include the rule's id
notActivated(rule, active) == active.def /\ ~arrIncludes(active.v, rule.id)

\* mutant: the receipt type compared without regard to case
notApplicable_IgnoreCase(rule, d) ==
  /\ Len(rule.receiptType) > 0
  /\ rule.receiptType # ALL
  /\ ~includes(toLowerCase(d.type), toLowerCase(rule.receiptType))

\* step 2: the rule names a receipt type other than 'ALL' that the
\* document's type (data.type || '') does not contain
notApplicable(rule, d) ==
  /\ Len(rule.receiptType) > 0
  /\ rule.receiptType # ALL
  /\ ~includes(d.type, rule.receiptType)

\* mutant: REQUIRED_FIELD checks the merchant name whatever the field token
violation_AnyRequiredToken(rule, d, zone) ==
  CASE rule.type = MAX_AMOUNT ->
         Greater(d.totalAmount, Number(rule.value))
    [] rule.type = FORBIDDEN_CATEGORY ->
         /\ Len(d.category) > 0
         /\ includes(toLowerCase(d.category), toLowerCase(String(rule.value)))
    [] rule.type = WEEKEND_BAN ->
         /\ Len(d.date) > 0
         /\ LET time == DateGetTime(d.date)
            IN  time.t = "number" /\ getDay(time, zone) \in {0, 6}
    [] rule.type = REQUIRED_FIELD ->
         (Len(d.merchantName) = 0 \/ d.merchantName = Unknown
            \/ d.merchantName = WeiZhi)
    [] OTHER -> FALSE

\* mutant: a rule of a kind the switch does not know counts as violated
violation_UnknownKindMatches(rule, d, zone) ==
  CASE rule.type = MAX_AMOUNT ->
         Greater(d.totalAmount, Number(rule.value))
    [] rule.type = FORBIDDEN_CATEGORY ->
         /\ Len(d.category) > 0
         /\ includes(toLowerCase(d.category), toLowerCase(String(rule.value)))
    [] rule.type = WEEKEND_BAN ->
         /\ Len(d.date) > 0
         /\ LET time == DateGetTime(d.date)
            IN  time.t = "number" /\ getDay(time, zone) \in {0, 6}
    [] rule.type = REQUIRED_FIELD ->
         /\ rule.value = StrV(Merchant)
         /\ (Len(d.merchantName) = 0 \/ d.merchantName = Unknown
               \/ d.merchantName = WeiZhi)
    [] OTHER -> TRUE

\* the switch on rule.type
violation(rule, d, zone) ==
  CASE rule.type = MAX_AMOUNT ->
         Greater(d.totalAmount, Number(rule.value))
    [] rule.type = FORBIDDEN_CATEGORY ->
         /\ Len(d.category) > 0
         /\ includes(toLowerCase(d.category), toLowerCase(String(rule.value)))
    [] rule.type = WEEKEND_BAN ->
         /\ Len(d.date) > 0
         /\ LET time == DateGetTime(d.date)
            IN  time.t = "number" /\ getDay(time, zone) \in {0, 6}
    [] rule.type = REQUIRED_FIELD ->
         /\ rule.value = StrV(Merchant)
         /\ (Len(d.merchantName) = 0 \/ d.merchantName = Unknown
               \/ d.merchantName = WeiZhi)
    [] OTHER -> FALSE

\* whether the loop body records a violation for this rule
triggers(rule, d, active, zone) ==
  /\ ~notActivated(rule, active)
  /\ ~notApplicable(rule, d)
  /\ violation(rule, d, zone)

\* RULE_WEIGHTS[rule.type] || 10
weightOf(rule) ==
  IF RULE_WEIGHTS(rule.type) = 0 THEN 10 ELSE RULE_WEIGHTS(rule.type)

\* the for loop over activeRules from index i on, carrying triggeredRules
\* and totalRiskScore
RECURSIVE evalLoop(_, _, _, _, _, _, _)
evalLoop(activeRules, i, d, active, zone, triggeredRules, totalRiskScore) ==
  IF i > Len(activeRules) THEN
    [triggeredRules |-> triggeredRules, totalRiskScore |-> totalRiskScore]
  ELSE IF triggers(activeRules[i], d, active, zone) THEN
    evalLoop(activeRules, i + 1, d, active, zone,
             Append(triggeredRules, activeRules[i].id),
             totalRiskScore + weightOf(activeRules[i]))
  ELSE
    evalLoop(activeRules, i + 1, d, active, zone, triggeredRules, totalRiskScore)

\* mutant: the upper clamp left out
finalScore_Unclamped(totalRiskScore) == Max(totalRiskScore, 0)

\* Math.min(Math.max(totalRiskScore, 0), 100)
finalScore(totalRiskScore) == Min(Max(totalRiskScore, 0), 100)

\* mutant: off by one in the emptiness test
passedOf_AtMostOne(triggeredRules) == Len(triggeredRules) <= 1

\* passed: triggeredRules.length === 0
passedOf(triggeredRules) == Len(triggeredRules) = 0

evaluateRules(d, rs, active, zone) ==
  LET out == evalLoop(enabledRules(rs), 1, d, active, zone, <<>>, 0)
  IN  [passed         |-> passedOf(out.triggeredRules),
       triggeredRules |-> out.triggeredRules,
       score          |-> finalScore(out.totalRiskScore)]

-----------------------------------------------------------------------------
(* getActiveRulesForType: availableRequestTypes.find(rt => rt.name ===     *)
(* typeName)?.linkedRuleIds                                                *)

findType(types, typeName) ==
  IF \E i \in 1..Len(types) : types[i].name = typeName
  THEN Some(types[CHOOSE i \in 1..Len(types) :
                    /\ types[i].name = typeName
                    /\ \A j \in 1..(i - 1) : types[j].name # typeName])
  ELSE Undefined

\* mutant: an empty list substituted for an unknown category
getActiveRulesForType_EmptyForUnknown(types, typeName) ==
  LET type == findType(types, typeName)
  IN  IF type.def THEN type.v.linkedRuleIds ELSE Some(<<>>)

getActiveRulesForType(types, typeName) ==
  LET type == findType(types, typeName)
  IN  IF type.def THEN type.v.linkedRuleIds ELSE Undefined

-----------------------------------------------------------------------------
(* Inputs of the evaluations the model draws *)

MaxRules == 2

\* rule ids are decimal strings, as DEFAULT_RULES' '1'..'6' and Date.now()
IdOf(i) == ToString(i)
DanglingId == "99"

Rule(id, type, value, enabled, receiptType, linkedRequestType) ==
  [id |-> id, type |-> type, value |-> value, enabled |-> enabled,
   receiptType |-> receiptType, linkedRequestType |-> linkedRequestType]

\* the rules drawn: one of each kind for every receipt type, thresholds as
\* entered through the form (strings), and a limit for one receipt type
\* (as DEFAULT_RULES' taxi-ticket limit)
RuleShapes ==
  { [type |-> MAX_AMOUNT, value |-> StrV(<<"6", "0">>), receiptType |-> ALL],
    [type |-> FORBIDDEN_CATEGORY, value |-> StrV(<<"b", "a">>), receiptType |-> ALL],
    [type |-> WEEKEND_BAN, value |-> StrV(<<"A", "l", "l">>), receiptType |-> ALL],
    [type |-> REQUIRED_FIELD, value |-> StrV(Merchant), receiptType |-> ALL],
    [type |-> MAX_AMOUNT, value |-> StrV(<<"6", "0">>), receiptType |-> <<"T">>] }

RulesAt(i) ==
  { Rule(IdOf(i), sh.type, sh.value, e, sh.receiptType, "ALL") :
      sh \in RuleShapes, e \in BOOLEAN }

\* catalogs of n rules with ids '1'..'n' in catalog order
CatalogsOfLen(n) ==
  { c \in [1..n -> UNION { RulesAt(i) : i \in 1..n }] :
      \A i \in 1..n : c[i] \in RulesAt(i) }

Catalogs == UNION { CatalogsOfLen(n) : n \in 0..MaxRules }

Saturday == <<"2", "0", "2", "4", "-", "0", "1", "-", "0", "6">>
Monday   == <<"2", "0", "2", "4", "-", "0", "1", "-", "0", "8">>

Documents ==
  [ merchantName : {<<>>, <<"m">>},
    date         : {Saturday, Monday},
    totalAmount  : {NumV(60), NumV(61)},
    category     : {<<"x", "B", "a">>, <<"a", "b">>},
    type         : {<<>>, <<"x", "T">>} ]

HostZones == {-8, 8}

\* the ids an activeRuleIds list may hold: the catalog's and a dangling one
IdPool == [i \in 1..(MaxRules + 1) |->
             IF i <= MaxRules THEN IdOf(i) ELSE DanglingId]

RECURSIVE ListOf(_)
ListOf(S) ==
  IF S = {} THEN <<>>
  ELSE LET m == CHOOSE x \in S : \A y \in S : x <= y
       IN  <<IdPool[m]>> \o ListOf(S \ {m})

ActiveLists ==
  {Undefined} \cup { Some(ListOf(S)) : S \in SUBSET (1..Len(IdPool)) }

NoResult == [passed |-> TRUE, triggeredRules |-> <<>>, score |-> -1]

-----------------------------------------------------------------------------
(* SpecEval: one call of evaluateRules on drawn inputs *)

InitStore ==
  /\ tblRules = <<>> /\ tblTypes = <<>> /\ initialized = FALSE
  /\ dbPc = "idle" /\ updatedTypes = <<>> /\ preTypes = <<>>

InitConfig ==
  /\ editingTypeId = NoId /\ editTypeRules = <<>> /\ editingRuleId = NoId
  /\ deletedIds = {} /\ nextId = 0

\* the page shown and whether initData has finished; no file is being read
InitExt(tab, ready) ==
  /\ activeTab = tab /\ reading = Undefined
  /\ isDbReady = ready
  /\ selectedRequestId = NoId /\ viewMode = "audit"
  /\ confirmAction = Undefined /\ inflight = {}
  /\ items = <<>> /\ activeItemId = NoId /\ step = "upload"
  /\ isProcessing = FALSE /\ isParsingFiles = FALSE /\ saveTimer = FALSE
  /\ run = Undefined /\ drafts = Undefined /\ madeItems = 0

\* MOCK_USERS
MOCK_USERS ==
  << [id |-> "u1", role |-> "EMPLOYEE"],
     [id |-> "u2", role |-> "AUDITOR"],
     [id |-> "u3", role |-> "ADMIN"] >>

InitItem ==
  /\ requestType = "" /\ auditViolations = <<>> /\ itemStatus = "pending"

InitApp ==
  /\ requests = <<>> /\ currentUser = MOCK_USERS[1]

InitEval ==
  /\ data \in Documents
  /\ rules \in Catalogs
  /\ requestTypes = <<>>
  /\ activeRuleIds \in ActiveLists
  /\ hostZone \in HostZones
  /\ result = NoResult
  /\ pc = "ready"
  /\ InitItem /\ InitApp /\ InitStore /\ InitConfig
  /\ InitExt("upload", TRUE)

Evaluate ==
  /\ pc = "ready"
  /\ result' = evaluateRules(data, rules, activeRuleIds, hostZone)
  /\ pc' = "done"
  /\ UNCHANGED <<data, rules, requestTypes, activeRuleIds, hostZone>>
  /\ UNCHANGED <<itemVars, appVars, dbVars, cfgVars, extVars>>

NextEval == Evaluate

SpecEval == InitEval /\ [][NextEval]_vars

-----------------------------------------------------------------------------
(* SpecKind: one call of evaluateRules on a rule of each kind, with the    *)
(* document fields that kind reads drawn over their edge cases: missing,   *)
(* malformed and boundary values.  The catalog is as loaded or as imported *)
(* from a file: one rule, or the rule and a second entry of it under the   *)
(* same or another id.                                                     *)

\* a field the document does not have (undefined)
Missing == [t |-> "undefined"]

\* a rule type the switch has no case for
CUSTOM == "CUSTOM"

Sunday    == <<"2", "0", "2", "4", "-", "0", "1", "-", "0", "7">>
NotADate  == <<"n", "o", "t", "-", "a", "-", "d", "a", "t", "e">>
Month13   == <<"2", "0", "2", "4", "-", "1", "3", "-", "0", "1">>
LowerUnknown == <<"u", "n", "k", "n", "o", "w", "n">>

BaseDocument ==
  [merchantName |-> <<"m">>, date |-> Monday, totalAmount |-> NumV(60),
   category |-> <<"a", "b">>, type |-> <<"x", "T">>]

\* the values drawn for the field a rule type reads
FieldOf(type) ==
  CASE type = MAX_AMOUNT         -> "totalAmount"
    [] type = FORBIDDEN_CATEGORY -> "category"
    [] type = WEEKEND_BAN        -> "date"
    [] type = REQUIRED_FIELD     -> "merchantName"
    [] OTHER                     -> "category"

KindFieldValues(field) ==
  CASE field = "totalAmount"  -> {NumV(0), NumV(1), NumV(60), NumV(61), Missing}
    [] field = "category"     -> {<<>>, <<"x", "B", "a">>, <<"a", "b">>}
    [] field = "date"         -> {<<>>, NotADate, Month13, Saturday, Sunday, Monday}
    [] field = "merchantName" -> {<<>>, Unknown, WeiZhi, LowerUnknown, <<"m">>}

DocumentTypes == {<<>>, <<"x", "T">>, <<"t">>}

\* the documents drawn for a rule of the given type
KindDocuments(type) ==
  { [[BaseDocument EXCEPT ![FieldOf(type)] = v] EXCEPT !.type = t] :
      v \in KindFieldValues(FieldOf(type)), t \in DocumentTypes }

\* thresholds as numbers and as the strings a form or a file gives
KindValues(type) ==
  CASE type = MAX_AMOUNT         ->
         {NumV(0), NumV(60), StrV(<<"6", "0">>), StrV(<<"a", "b">>)}
    [] type = FORBIDDEN_CATEGORY ->
         {StrV(<<"b", "a">>), StrV(<<"B", "A">>), StrV(<<>>)}
    [] type = WEEKEND_BAN        -> {StrV(<<"A", "l", "l">>)}
    [] type = REQUIRED_FIELD     -> {StrV(Merchant), StrV(<<"D", "a", "t", "e">>)}
    [] OTHER                     -> {StrV(<<"b", "a">>)}

KindTypes == RuleType \cup {CUSTOM}

KindReceiptTypes == {<<>>, ALL, <<"T">>}

KindRules(type) ==
  { Rule(IdOf(1), type, v, e, rt, "") :
      v \in KindValues(type), e \in BOOLEAN, rt \in KindReceiptTypes }

\* the catalogs built around a rule
KindCatalogs(r) ==
  { <<r>>, <<r, [r EXCEPT !.id = IdOf(1)]>>, <<r, [r EXCEPT !.id = IdOf(2)]>> }

KindActiveLists == {Undefined, Some(<<>>), Some(<<IdOf(1)>>)}

InitKind ==
  /\ \E type \in KindTypes : \E r \in KindRules(type) :
        /\ rules \in KindCatalogs(r)
        /\ data \in KindDocuments(type)
  /\ requestTypes = <<>>
  /\ activeRuleIds \in KindActiveLists
  /\ hostZone \in HostZones
  /\ result = NoResult
  /\ pc = "ready"
  /\ InitItem /\ InitApp /\ InitStore /\ InitConfig
  /\ InitExt("upload", TRUE)

SpecKind == InitKind /\ [][NextEval]_vars

-----------------------------------------------------------------------------
(* SpecReview: the review form of UploadReceipt on its active item.  The   *)
(* item has been analysed (status 'reviewing'); the user changes fields or *)
(* the category and submits.                                               *)

MaxTypes == 2

TypeIdOf(i) == "rt_" \o ToString(i)

\* DEFAULT_REQUEST_TYPES_LIST, in English; names are compared with === only
DEFAULT_REQUEST_TYPES_LIST ==
  <<"daily", "travel", "purchase", "hosting", "teambuilding", "training",
    "other">>

TypeNameOf(i) == DEFAULT_REQUEST_TYPES_LIST[i]

RequestTypeRec(id, name, linkedRuleIds) ==
  [id |-> id, name |-> name, linkedRuleIds |-> linkedRuleIds]

\* Chinese strings of the source, one token per character
Yule       == <<"U5A31", "U4E50">>                      \* '娱乐'
Yanjiu     == <<"U70DF", "U9152">>                      \* '烟酒'
Canyin     == <<"U9910", "U996E">>                      \* '餐饮'
TaxiTicket == <<"U51FA", "U79DF", "U8F66", "U7968">>    \* '出租车票'

DEFAULT_RULES ==
  << Rule("1", MAX_AMOUNT, NumV(2000), TRUE, ALL, "ALL"),
     Rule("2", FORBIDDEN_CATEGORY, StrV(Yule), TRUE, ALL, "ALL"),
     Rule("3", WEEKEND_BAN, StrV(<<"A", "l", "l">>), FALSE, ALL, "ALL"),
     Rule("4", REQUIRED_FIELD, StrV(Merchant), TRUE, ALL, "ALL"),
     Rule("5", FORBIDDEN_CATEGORY, StrV(Yanjiu), TRUE, ALL, "ALL"),
     Rule("6", MAX_AMOUNT, NumV(200), TRUE, TaxiTicket, "ALL") >>

IdsOf(rs) == [i \in 1..Len(rs) |-> rs[i].id]

\* linkage of a category: legacy (no field), empty, one rule, every rule
LinkOptions ==
  {Undefined, Some(<<>>), Some(<<"1">>), Some(IdsOf(DEFAULT_RULES))}

TypeCatalogsOfLen(n) ==
  { c \in [1..n -> [id : {TypeIdOf(i) : i \in 1..n},
                    name : {TypeNameOf(i) : i \in 1..n},
                    linkedRuleIds : LinkOptions]] :
      \A i \in 1..n : c[i].id = TypeIdOf(i) /\ c[i].name = TypeNameOf(i) }

TypeCatalogs == UNION { TypeCatalogsOfLen(n) : n \in 0..MaxTypes }

\* names a queue item may carry: a catalog name, one that differs only in
\* case from a catalog name, and the built-in default of a deleted category
TypeNames == {TypeNameOf(i) : i \in 1..MaxTypes} \cup {"Daily", "removed"}

\* the documents under review: an unrecognised merchant, a Saturday, a
\* taxi ticket; the user edits the amount and the category
ReviewDocuments ==
  [ merchantName : {Unknown},
    date         : {Saturday},
    totalAmount  : {NumV(2000), NumV(2001)},
    category     : {Yule, Canyin},
    type         : {TaxiTicket} ]

ReviewFields == {"totalAmount", "category"}
FieldValues(field) == { d[field] : d \in ReviewDocuments }

\* the request handleSubmitCurrent builds
NewRequest(user, d, typeName, res) ==
  [employeeId  |-> user.id,
   data        |-> d,
   requestType |-> typeName,
   status      |-> "PENDING",
   auditResult |-> res,
   history     |-> << [actor |-> user.id, status |-> "PENDING"] >>]

InitReview ==
  /\ data \in ReviewDocuments
  /\ rules = DEFAULT_RULES
  /\ requestTypes \in TypeCatalogs
  /\ requestType \in TypeNames
  /\ hostZone \in HostZones
  \* processQueue has analysed the item with the rules of its category
  /\ activeRuleIds = getActiveRulesForType(requestTypes, requestType)
  /\ result = evaluateRules(data, rules, activeRuleIds, hostZone)
  /\ auditViolations = result.triggeredRules
  /\ itemStatus = "reviewing"
  /\ pc = "review"
  /\ InitApp /\ InitStore /\ InitConfig
  /\ InitExt("upload", TRUE)

handleDataChange(field, value) ==
  /\ itemStatus = "reviewing"
  /\ LET updatedData == [data EXCEPT ![field] = value]
         ids == getActiveRulesForType(requestTypes, requestType)
         res == evaluateRules(updatedData, rules, ids, hostZone)
     IN  /\ data' = updatedData
         /\ activeRuleIds' = ids
         /\ result' = res
         /\ auditViolations' = res.triggeredRules
  /\ UNCHANGED <<rules, requestTypes, hostZone, requestType, itemStatus, pc>>
  /\ UNCHANGED <<appVars, dbVars, cfgVars, extVars>>

handleRequestTypeChange(value) ==
  /\ itemStatus = "reviewing"
  /\ LET ids == getActiveRulesForType(requestTypes, value)
         res == evaluateRules(data, rules, ids, hostZone)
     IN  /\ activeRuleIds' = ids
         /\ result' = res
         /\ auditViolations' = res.triggeredRules
  /\ requestType' = value
  /\ UNCHANGED <<data, rules, requestTypes, hostZone, itemStatus, pc>>
  /\ UNCHANGED <<appVars, dbVars, cfgVars, extVars>>

handleSubmitCurrent ==
  /\ itemStatus = "reviewing"
  /\ LET ids == getActiveRulesForType(requestTypes, requestType)
         res == evaluateRules(data, rules, ids, hostZone)
     IN  /\ activeRuleIds' = ids
         /\ result' = res
         /\ requests' = <<NewRequest(currentUser, data, requestType, res)>> \o requests
  /\ itemStatus' = "completed"
  /\ UNCHANGED <<data, rules, requestTypes, hostZone, requestType,
                 auditViolations, pc>>
  /\ UNCHANGED <<currentUser, dbVars, cfgVars, extVars>>

NextReview ==
  \/ \E field \in ReviewFields : \E value \in FieldValues(field) :
        handleDataChange(field, value)
  \/ \E value \in TypeNames : handleRequestTypeChange(value)
  \/ handleSubmitCurrent

SpecReview == InitReview /\ [][NextReview]_vars

-----------------------------------------------------------------------------
(* SpecMig: db.init on a stored database.  Each await of db.init is a step; *)
(* a write to localStorage may throw (quota), which db.init catches.  A     *)
(* page reload starts the module again with initialized = false.            *)

\* a rule's legacy tag: absent (""), 'ALL' or a category id
LegacyTags == {"", "ALL"} \cup { TypeIdOf(i) : i \in 1..MaxTypes }

\* stored rules: with or without the receiptType column
StoredRulesAt(i) ==
  { Rule(IdOf(i), MAX_AMOUNT, StrV(<<"6", "0">>), TRUE, rt, tag) :
      rt \in {<<>>, ALL}, tag \in LegacyTags }

StoredRuleTables ==
  UNION { { c \in [1..n -> UNION { StoredRulesAt(i) : i \in 1..n }] :
              \A i \in 1..n : c[i] \in StoredRulesAt(i) } : n \in 0..MaxRules }

\* stored categories: written before linkedRuleIds existed (no field), or
\* with a list
StoredLinkOptions == {Undefined, Some(<<>>), Some(<<IdOf(1)>>)}

StoredTypeTables ==
  UNION { { c \in [1..n -> [id : {TypeIdOf(i) : i \in 1..n},
                            name : {TypeNameOf(i) : i \in 1..n},
                            linkedRuleIds : StoredLinkOptions]] :
              \A i \in 1..n : c[i].id = TypeIdOf(i) /\ c[i].name = TypeNameOf(i) }
          : n \in 0..MaxTypes }

\* UPDATE rules SET receiptType = 'ALL' WHERE receiptType IS NULL
updateReceiptType(rows) ==
  [i \in 1..Len(rows) |->
     IF rows[i].receiptType = <<>> THEN [rows[i] EXCEPT !.receiptType = ALL]
     ELSE rows[i]]

\* UPDATE rules SET linkedRequestType = 'ALL' WHERE linkedRequestType IS NULL
updateLinkedRequestType(rows) ==
  [i \in 1..Len(rows) |->
     IF rows[i].linkedRequestType = ""
     THEN [rows[i] EXCEPT !.linkedRequestType = "ALL"]
     ELSE rows[i]]

\* the column migration of the rules table, gated on the first row
migrateRuleColumns(rows) ==
  LET r1 == IF rows[1].receiptType = <<>> THEN updateReceiptType(rows) ELSE rows
  IN  IF rows[1].linkedRequestType = "" THEN updateLinkedRequestType(r1) ELSE r1

\* the default categories, linked to every stored rule
seedTypes(rows) ==
  [idx \in 1..Len(DEFAULT_REQUEST_TYPES_LIST) |->
     RequestTypeRec("rt_seed_" \o ToString(idx),
                    DEFAULT_REQUEST_TYPES_LIST[idx], Some(IdsOf(rows)))]

\* mutant: the gate does not look at linkedRuleIds
needsMigration_NonEmpty(types) == Len(types) > 0

\* the gate of the linkage migration
needsMigration(types) == Len(types) > 0 /\ ~types[1].linkedRuleIds.def

\* mutant: a rule tagged with a category's id is not matched to it
matchingRules_AllOnly(rows, rt) ==
  SelectSeq(rows, LAMBDA r : \/ r.linkedRequestType = ""
                             \/ r.linkedRequestType = "ALL")

\* rules.filter(r => !r.linkedRequestType || r.linkedRequestType === 'ALL'
\*                   || r.linkedRequestType === rt.id)
matchingRules(rows, rt) ==
  SelectSeq(rows, LAMBDA r : \/ r.linkedRequestType = ""
                             \/ r.linkedRequestType = "ALL"
                             \/ r.linkedRequestType = rt.id)

\* requestTypes.map(rt => ({...rt, linkedRuleIds: matchingRules.map(r => r.id)}))
migrateTypes(types, rows) ==
  [i \in 1..Len(types) |->
     [types[i] EXCEPT !.linkedRuleIds = Some(IdsOf(matchingRules(rows, types[i])))]]

InitMig ==
  /\ tblRules \in StoredRuleTables
  /\ tblTypes \in StoredTypeTables
  /\ initialized = FALSE
  /\ dbPc = "idle" /\ updatedTypes = <<>> /\ preTypes = <<>>
  /\ data = CHOOSE d \in Documents : TRUE
  /\ rules = <<>> /\ requestTypes = <<>> /\ activeRuleIds = Undefined
  /\ hostZone = 8 /\ result = NoResult /\ pc = "ready"
  /\ InitItem /\ InitApp /\ InitConfig
  /\ InitExt("dashboard", FALSE)

notDb == <<evalVars, itemVars, appVars, cfgVars, extVars>>

\* db.init is entered: if (db.initialized) return; database and tables are
\* created if they do not exist
dbInitStart ==
  /\ dbPc = "idle" /\ ~initialized
  /\ dbPc' = "rules"
  /\ preTypes' = tblTypes
  /\ UNCHANGED <<tblRules, tblTypes, initialized, updatedTypes>>
  /\ UNCHANGED notDb

\* default rules are seeded into an empty table, else missing columns filled
dbInitRules ==
  /\ dbPc = "rules"
  /\ tblRules' = IF Len(tblRules) = 0 THEN DEFAULT_RULES
                 ELSE migrateRuleColumns(tblRules)
  /\ dbPc' = "types"
  /\ UNCHANGED <<tblTypes, initialized, updatedTypes, preTypes>>
  /\ UNCHANGED notDb

\* default categories are seeded into an empty table
dbInitTypes ==
  /\ dbPc = "types"
  /\ tblTypes' = IF Len(tblTypes) = 0 THEN seedTypes(tblRules) ELSE tblTypes
  /\ dbPc' = "migrate"
  /\ UNCHANGED <<tblRules, initialized, updatedTypes, preTypes>>
  /\ UNCHANGED notDb

\* the linkage migration is decided and updatedTypes computed, or db.init
\* finishes without it
dbInitMigrate ==
  /\ dbPc = "migrate"
  /\ IF needsMigration(tblTypes)
     THEN /\ updatedTypes' = migrateTypes(tblTypes, tblRules)
          /\ dbPc' = "delete"
          /\ UNCHANGED initialized
     ELSE /\ initialized' = TRUE
          /\ dbPc' = "idle"
          /\ UNCHANGED updatedTypes
  /\ UNCHANGED <<tblRules, tblTypes, preTypes>>
  /\ UNCHANGED notDb

\* DELETE FROM request_types
dbInitDelete ==
  /\ dbPc = "delete"
  /\ tblTypes' = <<>>
  /\ dbPc' = "insert"
  /\ UNCHANGED <<tblRules, initialized, updatedTypes, preTypes>>
  /\ UNCHANGED notDb

\* INSERT INTO request_types SELECT * FROM updatedTypes; db.initialized = true
dbInitInsert ==
  /\ dbPc = "insert"
  /\ tblTypes' = updatedTypes
  /\ initialized' = TRUE
  /\ dbPc' = "idle"
  /\ updatedTypes' = <<>>
  /\ UNCHANGED <<tblRules, preTypes>>
  /\ UNCHANGED notDb

\* a statement that writes throws; catch (e) logs and db.init returns with
\* initialized still false
dbInitThrows ==
  /\ dbPc \in {"rules", "types", "delete", "insert"}
  /\ dbPc' = "idle"
  /\ updatedTypes' = <<>>
  /\ UNCHANGED <<tblRules, tblTypes, initialized, preTypes>>
  /\ UNCHANGED notDb

\* the page is loaded again: the module and the App start over with their
\* initial state, the tables persist
pageReload ==
  /\ dbPc = "idle" /\ initialized
  /\ initialized' = FALSE
  /\ rules' = <<>> /\ requestTypes' = <<>> /\ requests' = <<>>
  /\ currentUser' = MOCK_USERS[1]
  /\ activeTab' = "dashboard" /\ isDbReady' = FALSE /\ reading' = Undefined
  /\ editingTypeId' = NoId /\ editTypeRules' = <<>> /\ editingRuleId' = NoId
  /\ selectedRequestId' = NoId /\ viewMode' = "audit"
  /\ confirmAction' = Undefined /\ inflight' = {}
  /\ items' = <<>> /\ activeItemId' = NoId /\ step' = "upload"
  /\ isProcessing' = FALSE /\ isParsingFiles' = FALSE /\ saveTimer' = FALSE
  /\ run' = Undefined
  /\ UNCHANGED <<tblRules, tblTypes, dbPc, updatedTypes, preTypes>>
  /\ UNCHANGED <<data, activeRuleIds, hostZone, result, pc, itemVars,
                 deletedIds, nextId, drafts, madeItems>>

NextMig ==
  \/ dbInitStart \/ dbInitRules \/ dbInitTypes \/ dbInitMigrate
  \/ dbInitDelete \/ dbInitInsert \/ dbInitThrows \/ pageReload

SpecMig == InitMig /\ [][NextMig]_vars

-----------------------------------------------------------------------------
(* SpecCfg: the RuleConfig page, used by the administrator on the loaded   *)
(* catalogs.  A text typed into a form field is drawn when the handler     *)
(* that reads it runs.                                                     *)

MaxNew == 1

\* readOnly={currentUser.role !== UserRole.ADMIN}
readOnly == currentUser.role # "ADMIN"

\* a rule as handleSaveRule and handleAddPreset build it (no legacy tag)
CfgRule(id) == Rule(id, MAX_AMOUNT, StrV(<<"6", "0">>), TRUE, ALL, "")

CfgRules(n) == [i \in 1..n |-> CfgRule(IdOf(i))]

\* categories as seeded or added: linked to every rule of the catalog
CfgTypes(k, rs) ==
  [j \in 1..k |-> RequestTypeRec(TypeIdOf(j), TypeNameOf(j), Some(IdsOf(rs)))]

\* Date.now() of the first creation in the session
ClockStart == MaxRules + MaxTypes

\* the names typed into the category forms
CfgNames == { TypeNameOf(j) : j \in 1..MaxTypes }

InitCfg ==
  /\ \E n \in 0..MaxRules : \E k \in 0..MaxTypes :
        /\ rules = CfgRules(n)
        /\ requestTypes = CfgTypes(k, CfgRules(n))
  /\ currentUser = MOCK_USERS[3]
  /\ editingTypeId = NoId /\ editTypeRules = <<>> /\ editingRuleId = NoId
  /\ deletedIds = {} /\ nextId = ClockStart
  /\ requests = <<>>
  /\ data = CHOOSE d \in Documents : TRUE
  /\ activeRuleIds = Undefined
  /\ hostZone = 8 /\ result = NoResult /\ pc = "ready"
  /\ InitItem /\ InitStore
  /\ InitExt("rules", TRUE)

notCfg == <<data, activeRuleIds, hostZone, result, pc, itemVars, requests,
            currentUser, dbVars, extVars>>

\* mutant: a list that becomes empty is dropped
withoutId_DropsEmptyList(linked, id) ==
  IF linked.def /\ SelectSeq(linked.v, LAMBDA rid : rid # id) # <<>>
  THEN Some(SelectSeq(linked.v, LAMBDA rid : rid # id))
  ELSE Undefined

\* rt.linkedRuleIds?.filter(rid => rid !== id) || []
withoutId(linked, id) ==
  IF linked.def THEN Some(SelectSeq(linked.v, LAMBDA rid : rid # id))
  ELSE Some(<<>>)

\* [...(rt.linkedRuleIds || []), newId]
withId(linked, newId) ==
  IF linked.def THEN Some(Append(linked.v, newId)) ELSE Some(<<newId>>)

\* the rule is removed from the catalog and from every category's list; the
\* open category edit keeps its selection
handleDeleteRule(id) ==
  /\ ~readOnly
  /\ \E i \in 1..Len(rules) : rules[i].id = id
  /\ rules' = SelectSeq(rules, LAMBDA r : r.id # id)
  /\ requestTypes' =
       [j \in 1..Len(requestTypes) |->
          [requestTypes[j] EXCEPT !.linkedRuleIds = withoutId(@, id)]]
  /\ deletedIds' = deletedIds \cup {id}
  /\ editingRuleId' = IF editingRuleId = id THEN NoId ELSE editingRuleId
  /\ UNCHANGED <<editingTypeId, editTypeRules, nextId>>
  /\ UNCHANGED notCfg

\* the values typed into the rule form while a rule is edited
EditValues == {StrV(<<"6", "1">>)}

\* the rule form is saved.  While a rule is edited the rule takes the
\* form's fields and keeps its id and enabled flag; otherwise a new rule
\* gets a fresh id and is linked to every category
handleSaveRule ==
  /\ ~readOnly
  /\ IF editingRuleId # NoId
     THEN /\ \E v \in EditValues :
               rules' = [i \in 1..Len(rules) |->
                           IF rules[i].id = editingRuleId
                           THEN [rules[i] EXCEPT !.value = v]
                           ELSE rules[i]]
          /\ editingRuleId' = NoId
          /\ UNCHANGED <<requestTypes, nextId>>
     ELSE /\ nextId < ClockStart + MaxNew
          /\ LET newId == IdOf(nextId + 1)
             IN  /\ rules' = Append(rules, CfgRule(newId))
                 /\ requestTypes' =
                      [j \in 1..Len(requestTypes) |->
                         [requestTypes[j] EXCEPT
                            !.linkedRuleIds = withId(@, newId)]]
          /\ nextId' = nextId + 1
          /\ UNCHANGED editingRuleId
  /\ UNCHANGED <<editingTypeId, editTypeRules, deletedIds>>
  /\ UNCHANGED notCfg

\* a preset is added: as a new rule, with an id of its own
handleAddPreset ==
  /\ ~readOnly
  /\ nextId < ClockStart + MaxNew
  /\ LET newId == IdOf(nextId + 1) \o "p"
     IN  /\ rules' = Append(rules, CfgRule(newId))
         /\ requestTypes' =
              [j \in 1..Len(requestTypes) |->
                 [requestTypes[j] EXCEPT !.linkedRuleIds = withId(@, newId)]]
  /\ nextId' = nextId + 1
  /\ UNCHANGED <<editingTypeId, editTypeRules, deletedIds, editingRuleId>>
  /\ UNCHANGED notCfg

\* a category is added under a name that is not taken, linked to all rules
handleAddRequestType(name) ==
  /\ ~readOnly
  /\ \A j \in 1..Len(requestTypes) : requestTypes[j].name # name
  /\ nextId < ClockStart + MaxNew
  /\ Len(requestTypes) < MaxTypes
  /\ requestTypes' =
       Append(requestTypes,
              RequestTypeRec(TypeIdOf(nextId + 1), name, Some(IdsOf(rules))))
  /\ nextId' = nextId + 1
  /\ UNCHANGED <<rules, editingTypeId, editTypeRules, deletedIds, editingRuleId>>
  /\ UNCHANGED notCfg

handleDeleteRequestType(id) ==
  /\ ~readOnly
  /\ \E j \in 1..Len(requestTypes) : requestTypes[j].id = id
  \* the row being edited shows the edit form, not the delete button
  /\ id # editingTypeId
  /\ requestTypes' = SelectSeq(requestTypes, LAMBDA t : t.id # id)
  /\ UNCHANGED <<rules, editingTypeId, editTypeRules, deletedIds, nextId, editingRuleId>>
  /\ UNCHANGED notCfg

\* the edit form of a category is opened with a copy of its linked rules
startEditType(j) ==
  /\ ~readOnly
  /\ j \in 1..Len(requestTypes)
  /\ requestTypes[j].id # editingTypeId
  /\ editingTypeId' = requestTypes[j].id
  /\ editTypeRules' = IF requestTypes[j].linkedRuleIds.def
                      THEN requestTypes[j].linkedRuleIds.v ELSE <<>>
  /\ UNCHANGED <<rules, requestTypes, deletedIds, nextId, editingRuleId>>
  /\ UNCHANGED notCfg

\* a rule's checkbox in the open edit form: the form lists the catalog's rules
toggleTypeRule(ruleId) ==
  /\ editingTypeId # NoId
  /\ \E i \in 1..Len(rules) : rules[i].id = ruleId
  /\ editTypeRules' =
       IF arrIncludes(editTypeRules, ruleId)
       THEN SelectSeq(editTypeRules, LAMBDA id : id # ruleId)
       ELSE Append(editTypeRules, ruleId)
  /\ UNCHANGED <<rules, requestTypes, editingTypeId, deletedIds, nextId, editingRuleId>>
  /\ UNCHANGED notCfg

\* Array.from(new Set(prev)) after adding ids: first occurrences, in order
RECURSIVE dedupe(_)
dedupe(seq) ==
  IF seq = <<>> THEN <<>>
  ELSE LET front == SubSeq(seq, 1, Len(seq) - 1)
           last  == seq[Len(seq)]
       IN  IF arrIncludes(front, last) THEN dedupe(front)
           ELSE Append(dedupe(front), last)

\* "select all" of the edit form with an empty search box: every rule of the
\* catalog is visible
toggleAllVisibleRules ==
  /\ editingTypeId # NoId
  /\ LET visibleRuleIds == IdsOf(rules)
         allVisibleSelected ==
           \A i \in 1..Len(visibleRuleIds) :
              arrIncludes(editTypeRules, visibleRuleIds[i])
     IN  editTypeRules' =
           IF allVisibleSelected
           THEN SelectSeq(editTypeRules,
                          LAMBDA id : ~arrIncludes(visibleRuleIds, id))
           ELSE dedupe(editTypeRules \o visibleRuleIds)
  /\ editTypeRules' # editTypeRules
  /\ UNCHANGED <<rules, requestTypes, editingTypeId, deletedIds, nextId, editingRuleId>>
  /\ UNCHANGED notCfg

\* the Cancel button of the edit form: setEditingTypeId(null)
cancelEditType ==
  /\ editingTypeId # NoId
  /\ editingTypeId' = NoId
  /\ UNCHANGED <<rules, requestTypes, editTypeRules, deletedIds, nextId, editingRuleId>>
  /\ UNCHANGED notCfg

\* mutant: the edit form saved without the check for a taken name
saveEditType_NoDuplicateCheck(id, editTypeName) ==
  /\ id = editingTypeId /\ id # NoId
  /\ requestTypes' =
       [j \in 1..Len(requestTypes) |->
          IF requestTypes[j].id = id
          THEN [requestTypes[j] EXCEPT !.name = editTypeName,
                                       !.linkedRuleIds = Some(editTypeRules)]
          ELSE requestTypes[j]]
  /\ editingTypeId' = NoId
  /\ editTypeRules' = <<>>
  /\ UNCHANGED <<rules, deletedIds, nextId, editingRuleId>>
  /\ UNCHANGED notCfg

\* the edit form is saved under the name typed, unless another category
\* has it: the category takes the name and the form's selection
saveEditType(id, editTypeName) ==
  /\ id = editingTypeId /\ id # NoId
  /\ \A j \in 1..Len(requestTypes) :
        ~(requestTypes[j].name = editTypeName /\ requestTypes[j].id # id)
  /\ requestTypes' =
       [j \in 1..Len(requestTypes) |->
          IF requestTypes[j].id = id
          THEN [requestTypes[j] EXCEPT !.name = editTypeName,
                                       !.linkedRuleIds = Some(editTypeRules)]
          ELSE requestTypes[j]]
  /\ editingTypeId' = NoId
  /\ editTypeRules' = <<>>
  /\ UNCHANGED <<rules, deletedIds, nextId, editingRuleId>>
  /\ UNCHANGED notCfg

\* the files an import may read: catalogs of rules with ids handed out so far
ImportFiles ==
  { CfgRules(n) : n \in 0..MaxRules }

\* a rule file is imported and confirmed (the import button is rendered
\* for the administrator only): it replaces the catalog; the categories are
\* left as they are
handleImport(importedRules) ==
  /\ ~readOnly
  /\ importedRules # rules
  /\ rules' = importedRules
  /\ deletedIds' = (deletedIds \cup Range(IdsOf(rules))) \ Range(IdsOf(importedRules))
  /\ UNCHANGED <<requestTypes, editingTypeId, editTypeRules, nextId, editingRuleId>>
  /\ UNCHANGED notCfg

NextCfg ==
  \/ \E i \in 1..Len(rules) : handleDeleteRule(rules[i].id)
  \/ handleSaveRule
  \/ handleAddPreset
  \/ \E name \in CfgNames : handleAddRequestType(name)
  \/ \E j \in 1..Len(requestTypes) : handleDeleteRequestType(requestTypes[j].id)
  \/ \E j \in 1..Len(requestTypes) : startEditType(j)
  \/ \E i \in 1..Len(rules) : toggleTypeRule(rules[i].id)
  \/ toggleAllVisibleRules
  \/ cancelEditType
  \/ \E name \in CfgNames : saveEditType(editingTypeId, name)
  \/ \E f \in ImportFiles : handleImport(f)

SpecCfg == InitCfg /\ [][NextCfg]_vars

-----------------------------------------------------------------------------
(* SpecRole: the App with its user switcher and navigation around the     *)
(* RuleConfig page.  RuleConfig is mounted while the 'rules' page is shown *)
(* to an auditor or administrator; its component state is lost when it    *)
(* unmounts.  The FileReader of handleImport calls back in a later task.   *)

\* the pages of the sidebar the model visits
Tabs == {"dashboard", "rules"}

\* Sidebar: allMenuItems[..].roles
menuRoles(tab) ==
  IF tab = "rules" THEN {"ADMIN", "AUDITOR"}
  ELSE {"EMPLOYEE", "AUDITOR", "ADMIN"}

\* renderContent: case 'rules' renders RuleConfig for these roles only
Mounted ==
  activeTab = "rules" /\ currentUser.role \in {"ADMIN", "AUDITOR"}

InitRole ==
  /\ rules = CfgRules(1)
  /\ requestTypes = CfgTypes(1, CfgRules(1))
  /\ currentUser = MOCK_USERS[1]
  /\ editingTypeId = NoId /\ editTypeRules = <<>> /\ editingRuleId = NoId
  /\ deletedIds = {} /\ nextId = ClockStart
  /\ requests = <<>>
  /\ data = CHOOSE d \in Documents : TRUE
  /\ activeRuleIds = Undefined
  /\ hostZone = 8 /\ result = NoResult /\ pc = "ready"
  /\ InitItem /\ InitStore
  /\ InitExt("dashboard", TRUE)

notNav == <<evalVars, itemVars, requests, dbVars, deletedIds, nextId,
            reading, lifeVars, inflight, drafts, madeItems>>

\* the page shown is left: RuleConfig and ReimbursementList take their
\* useState initial values again at the next mount
unmountPage ==
  /\ editingTypeId' = NoId /\ editTypeRules' = <<>> /\ editingRuleId' = NoId
  /\ selectedRequestId' = NoId /\ viewMode' = "audit"
  /\ confirmAction' = Undefined

\* JSON.parse(localStorage.getItem(STORAGE_KEY)), or [] without a draft
savedItems == IF drafts.def THEN drafts.v ELSE <<>>

\* the useState initializer of activeItemId
initialActiveItemId(its) ==
  IF Len(its) = 0 THEN NoId
  ELSE LET c == SelectSeq(its, LAMBDA i : i.status \in {"reviewing", "pending"})
       IN  IF Len(c) > 0 THEN c[1].id ELSE its[1].id

\* UploadReceipt is mounted: the queue is restored from the draft, nothing
\* runs, and the auto-save effect of the first render sets its timer
mountUpload ==
  /\ items' = savedItems
  /\ activeItemId' = initialActiveItemId(savedItems)
  /\ step' = IF Len(savedItems) > 0 THEN "review" ELSE "upload"
  /\ isProcessing' = FALSE /\ isParsingFiles' = FALSE
  /\ saveTimer' = TRUE
  /\ run' = Undefined

\* UploadReceipt is unmounted: its state is gone, the effect's cleanup
\* clears the timer, and the setItems of a processQueue or processFiles
\* still running change nothing any more
unmountUpload ==
  /\ items' = <<>> /\ activeItemId' = NoId /\ step' = "upload"
  /\ isProcessing' = FALSE /\ isParsingFiles' = FALSE
  /\ saveTimer' = FALSE
  /\ run' = Undefined

\* setCurrentUser(user); setActiveTab('dashboard')
handleUserSwitch(user) ==
  /\ user.id # currentUser.id
  /\ currentUser' = user
  /\ activeTab' = "dashboard"
  /\ unmountPage /\ unmountUpload
  /\ UNCHANGED notNav

\* a menu item of the sidebar: setActiveTab(item.id)
setActiveTab(tab) ==
  /\ currentUser.role \in menuRoles(tab)
  /\ tab # activeTab
  /\ activeTab' = tab
  /\ unmountPage
  /\ IF tab = "upload" THEN mountUpload ELSE unmountUpload
  /\ UNCHANGED currentUser
  /\ UNCHANGED notNav

\* setRules(prev => prev.map(r => r.id === id ? {...r, enabled: !r.enabled} : r))
handleToggle(id) ==
  /\ ~readOnly
  /\ rules' = [i \in 1..Len(rules) |->
                 IF rules[i].id = id
                 THEN [rules[i] EXCEPT !.enabled = ~rules[i].enabled]
                 ELSE rules[i]]
  /\ UNCHANGED <<requestTypes, cfgVars>>
  /\ UNCHANGED notCfg

\* the rule form is opened on a rule
handleEditRule(id) ==
  /\ ~readOnly
  /\ id # editingRuleId
  /\ editingRuleId' = id
  /\ UNCHANGED <<rules, requestTypes, editingTypeId, editTypeRules,
                 deletedIds, nextId>>
  /\ UNCHANGED notCfg

\* the Cancel button of the rule form (rendered while !readOnly)
handleCancelRuleEdit ==
  /\ ~readOnly
  /\ editingRuleId # NoId
  /\ editingRuleId' = NoId
  /\ UNCHANGED <<rules, requestTypes, editingTypeId, editTypeRules,
                 deletedIds, nextId>>
  /\ UNCHANGED notCfg

\* the rule file picked in the file dialog
RoleFiles == {<<CfgRule(IdOf(MaxRules))>>}

notRead == <<evalVars, itemVars, appVars, dbVars, cfgVars, activeTab,
             lifeVars, flowVars, queueVars>>

\* handleImport up to reader.readAsText(file): the file input is rendered
\* for the administrator only
importChange(file) ==
  /\ Mounted /\ ~readOnly
  /\ reading = Undefined
  /\ reading' = Some(file)
  /\ UNCHANGED notRead

\* reader.onload: the file holds a valid rule array; when the confirm
\* dialog is accepted the catalog is replaced
readerOnload(confirmed) ==
  /\ reading.def
  /\ reading' = Undefined
  /\ IF confirmed
     THEN /\ rules' = reading.v
          /\ deletedIds' = (deletedIds \cup Range(IdsOf(rules)))
                             \ Range(IdsOf(reading.v))
     ELSE UNCHANGED <<rules, deletedIds>>
  /\ UNCHANGED <<data, requestTypes, activeRuleIds, hostZone, result, pc>>
  /\ UNCHANGED <<editingTypeId, editTypeRules, nextId, editingRuleId>>
  /\ UNCHANGED <<itemVars, appVars, dbVars, activeTab, lifeVars, flowVars,
                 queueVars>>

\* the user switcher, the sidebar, the handlers of the mounted RuleConfig
\* and the FileReader's callback
NextRole ==
  \/ \E k \in 1..Len(MOCK_USERS) : handleUserSwitch(MOCK_USERS[k])
  \/ \E tab \in Tabs : setActiveTab(tab)
  \/ \E i \in 1..Len(rules) : Mounted /\ handleToggle(rules[i].id)
  \/ \E i \in 1..Len(rules) : Mounted /\ handleDeleteRule(rules[i].id)
  \/ \E i \in 1..Len(rules) : Mounted /\ handleEditRule(rules[i].id)
  \/ Mounted /\ handleSaveRule
  \/ Mounted /\ handleCancelRuleEdit
  \/ Mounted /\ handleAddPreset
  \/ \E name \in CfgNames : Mounted /\ handleAddRequestType(name)
  \/ \E j \in 1..Len(requestTypes) :
        Mounted /\ handleDeleteRequestType(requestTypes[j].id)
  \/ \E j \in 1..Len(requestTypes) : Mounted /\ startEditType(j)
  \/ \E i \in 1..Len(rules) : Mounted /\ toggleTypeRule(rules[i].id)
  \/ Mounted /\ toggleAllVisibleRules
  \/ Mounted /\ cancelEditType
  \/ \E name \in CfgNames : Mounted /\ saveEditType(editingTypeId, name)
  \/ \E f \in RoleFiles : importChange(f)
  \/ \E confirmed \in BOOLEAN : readerOnload(confirmed)

SpecRole == InitRole /\ [][NextRole]_vars

-----------------------------------------------------------------------------
(* SpecLife: the life of the category catalog across page loads.  The page *)
(* loads (db.init, then initData reads the tables into the App state), the *)
(* administrator opens the configuration and changes it, the App's effects *)
(* write the changed catalogs back to the tables, the page is loaded       *)
(* again.  No statement of the database throws.                            *)

\* the stored category tables: up to MaxTypes categories of which each is
\* legacy (no linkedRuleIds) or linked to the stored rule
LifeTypeTables ==
  { c \in StoredTypeTables :
      /\ Len(c) > 0
      /\ \A j \in 1..Len(c) : c[j].linkedRuleIds \in {Undefined, Some(<<IdOf(1)>>)} }

InitLife ==
  /\ tblRules = <<Rule(IdOf(1), MAX_AMOUNT, StrV(<<"6", "0">>), TRUE, ALL, "ALL")>>
  /\ tblTypes \in LifeTypeTables
  /\ initialized = FALSE
  /\ dbPc = "idle" /\ updatedTypes = <<>> /\ preTypes = <<>>
  /\ data = CHOOSE d \in Documents : TRUE
  /\ rules = <<>> /\ requestTypes = <<>> /\ activeRuleIds = Undefined
  /\ hostZone = 8 /\ result = NoResult /\ pc = "ready"
  /\ InitItem /\ InitApp
  /\ editingTypeId = NoId /\ editTypeRules = <<>> /\ editingRuleId = NoId
  /\ deletedIds = {} /\ nextId = ClockStart
  /\ InitExt("dashboard", FALSE)

\* initData after await db.init(): getRules, getRequests, getRequestTypes,
\* then setRules, setRequests, setRequestTypes, setIsDbReady(true)
initData ==
  /\ ~isDbReady
  /\ initialized /\ dbPc = "idle"
  /\ rules' = tblRules
  /\ requestTypes' = tblTypes
  /\ isDbReady' = TRUE
  /\ UNCHANGED <<data, activeRuleIds, hostZone, result, pc>>
  /\ UNCHANGED <<itemVars, appVars, dbVars, cfgVars, roleVars, flowVars,
                 queueVars>>

\* the two effects that follow a change of rules or requestTypes have
\* written the catalogs (an empty catalog is not written)
Synced ==
  /\ (Len(rules) > 0) => (tblRules = rules)
  /\ (Len(requestTypes) > 0) => (tblTypes = requestTypes)

\* useEffect on [rules, isDbReady] and on [requestTypes, isDbReady]:
\* db.saveRules(rules), db.saveRequestTypes(requestTypes), each a DELETE
\* followed by an INSERT of the App's catalog
saveEffects ==
  /\ isDbReady /\ initialized /\ dbPc = "idle"
  /\ ~Synced
  /\ tblRules' = IF Len(rules) > 0 THEN rules ELSE tblRules
  /\ tblTypes' = IF Len(requestTypes) > 0 THEN requestTypes ELSE tblTypes
  /\ UNCHANGED <<initialized, dbPc, updatedTypes, preTypes>>
  /\ UNCHANGED notDb

\* the user at the page: the effects of the last change have run
AtConfig == isDbReady /\ Synced /\ Mounted

NextLife ==
  \/ dbInitStart \/ dbInitRules \/ dbInitTypes \/ dbInitMigrate
  \/ dbInitDelete \/ dbInitInsert
  \/ initData
  \/ saveEffects
  \/ isDbReady /\ Synced /\ handleUserSwitch(MOCK_USERS[3])
  \/ isDbReady /\ Synced /\ setActiveTab("rules")
  \/ \E i \in 1..Len(rules) : AtConfig /\ handleToggle(rules[i].id)
  \/ \E i \in 1..Len(rules) : AtConfig /\ handleDeleteRule(rules[i].id)
  \/ AtConfig /\ handleSaveRule
  \/ AtConfig /\ handleAddPreset
  \/ \E name \in CfgNames : AtConfig /\ handleAddRequestType(name)
  \/ \E j \in 1..Len(requestTypes) : AtConfig /\ startEditType(j)
  \/ \E i \in 1..Len(rules) : AtConfig /\ toggleTypeRule(rules[i].id)
  \/ AtConfig /\ toggleAllVisibleRules
  \/ \E name \in CfgNames : AtConfig /\ saveEditType(editingTypeId, name)
  \/ Synced /\ pageReload

SpecLife == InitLife /\ [][NextLife]_vars

-----------------------------------------------------------------------------
(* SpecFlow: the request list and detail view (ReimbursementList,          *)
(* RequestDetail) with the App's handleStatusUpdate.  A call of            *)
(* handleStatusUpdate builds the updated request from the request and the  *)
(* user of the render it was called in, waits at await db.updateRequest    *)
(* and then replaces the request in the App state.  Other events may be    *)
(* handled while a call waits.                                             *)

FlowTabs == {"dashboard", "requests"}

\* calls of handleStatusUpdate that wait for the database at the same time
MaxInflight == 2

\* the submitted requests: one of the employee, one of the auditor
FlowRequest(id, user) ==
  [id |-> id] @@
  NewRequest(user, CHOOSE d \in Documents : TRUE, TypeNameOf(1), NoResult)

InitFlow ==
  /\ requests = << FlowRequest("r1", MOCK_USERS[1]),
                   FlowRequest("r2", MOCK_USERS[2]) >>
  /\ currentUser = MOCK_USERS[1]
  /\ rules = <<>> /\ requestTypes = <<>>
  /\ data = CHOOSE d \in Documents : TRUE
  /\ activeRuleIds = Undefined
  /\ hostZone = 8 /\ result = NoResult /\ pc = "ready"
  /\ InitItem /\ InitStore /\ InitConfig
  /\ InitExt("dashboard", TRUE)

\* const visibleRequests = useMemo(...): an employee sees their own requests
visibleRequests ==
  IF currentUser.role = "EMPLOYEE"
  THEN SelectSeq(requests, LAMBDA r : r.employeeId = currentUser.id)
  ELSE requests

isPrivileged == currentUser.role \in {"ADMIN", "AUDITOR"}

\* ReimbursementList: displayedRequests
displayed(req) ==
  IF ~isPrivileged THEN req.employeeId = currentUser.id
  ELSE IF viewMode = "my" THEN req.employeeId = currentUser.id
  ELSE req.employeeId # currentUser.id

\* requests.find(r => r.id === id) on a list; Undefined when there is none
findRequest(list, id) ==
  IF \E i \in 1..Len(list) : list[i].id = id
  THEN Some(list[CHOOSE i \in 1..Len(list) :
                   list[i].id = id /\ \A k \in 1..(i - 1) : list[k].id # id])
  ELSE Undefined

\* ReimbursementList: const selectedRequest = requests.find(...)
selectedRequest == findRequest(visibleRequests, selectedRequestId)

isPending(req) == req.status \in {"PENDING", "NEEDS_REVIEW"}

\* ReimbursementList.canApproveRequest
canApproveRequest(req) == isPrivileged /\ req.employeeId # currentUser.id

\* mutant: the submitter is not excluded
canApprove_OwnAllowed(req) == currentUser.role \in {"AUDITOR", "ADMIN"}

\* RequestDetail: canApprove = isAuditorOrAdmin && employeeId !== currentUser.id
canApprove(req) ==
  currentUser.role \in {"AUDITOR", "ADMIN"} /\ req.employeeId # currentUser.id

isMyRequest(req) == req.employeeId = currentUser.id

\* the list is shown: the 'requests' page without a selected request
ListShown == activeTab = "requests" /\ ~selectedRequest.def

notList == <<evalVars, itemVars, appVars, dbVars, cfgVars, roleVars, lifeVars,
             queueVars>>

\* a row of the list is clicked: setSelectedRequestId(req.id)
selectRequest(id) ==
  /\ ListShown /\ ~confirmAction.def
  /\ \E i \in 1..Len(visibleRequests) :
        visibleRequests[i].id = id /\ displayed(visibleRequests[i])
  /\ selectedRequestId' = id
  /\ UNCHANGED <<viewMode, confirmAction, inflight>>
  /\ UNCHANGED notList

\* RequestDetail's back button: setSelectedRequestId(null)
onBack ==
  /\ activeTab = "requests" /\ selectedRequest.def
  /\ selectedRequestId' = NoId
  /\ UNCHANGED <<viewMode, confirmAction, inflight>>
  /\ UNCHANGED notList

\* the view switch of an auditor or administrator
setViewMode(mode) ==
  /\ ListShown /\ ~confirmAction.def
  /\ isPrivileged
  /\ mode # viewMode
  /\ viewMode' = mode
  /\ UNCHANGED <<selectedRequestId, confirmAction, inflight>>
  /\ UNCHANGED notList

\* an approve or reject button of a row: opens the confirmation dialog
handleInitiateAction(id, status) ==
  /\ ListShown /\ ~confirmAction.def
  /\ \E i \in 1..Len(visibleRequests) :
        /\ visibleRequests[i].id = id
        /\ displayed(visibleRequests[i])
        /\ canApproveRequest(visibleRequests[i])
        /\ isPending(visibleRequests[i])
  /\ confirmAction' = Some([id |-> id, status |-> status])
  /\ UNCHANGED <<selectedRequestId, viewMode, inflight>>
  /\ UNCHANGED notList

handleCancelAction ==
  /\ ListShown /\ confirmAction.def
  /\ confirmAction' = Undefined
  /\ UNCHANGED <<selectedRequestId, viewMode, inflight>>
  /\ UNCHANGED notList

\* handleStatusUpdate up to await db.updateRequest(updatedReq): the request
\* is looked up in the App's requests, the history entry and the updated
\* request are built; a call for an id that is not there returns
statusUpdateCalls(id, newStatus) ==
  LET req == findRequest(requests, id)
  IN  IF ~req.def THEN {}
      ELSE LET historyEntry == [actor |-> currentUser.id, status |-> newStatus]
               updatedReq ==
                 [req.v EXCEPT !.status = newStatus,
                               !.history = Append(req.v.history, historyEntry)]
           IN  { [id |-> id, updatedReq |-> updatedReq] }

\* the confirmation dialog is confirmed: onStatusUpdate(id, status)
handleConfirmAction ==
  /\ ListShown /\ confirmAction.def
  /\ Cardinality(inflight) < MaxInflight
  /\ inflight' = inflight \cup
                   statusUpdateCalls(confirmAction.v.id, confirmAction.v.status)
  /\ confirmAction' = Undefined
  /\ UNCHANGED <<selectedRequestId, viewMode>>
  /\ UNCHANGED notList

\* the buttons in the footer of RequestDetail: reject and approve when
\* canApprove && isPending, withdraw when isMyRequest && isPending
detailButtons(req) ==
  IF canApprove(req) /\ isPending(req) THEN {"REJECTED", "APPROVED"}
  ELSE IF isMyRequest(req) /\ isPending(req) THEN {"WITHDRAWN"}
  ELSE {}

\* a footer button of the detail view: onStatusUpdate(request.id, status)
detailAction(status) ==
  /\ activeTab = "requests" /\ selectedRequest.def
  /\ status \in detailButtons(selectedRequest.v)
  /\ Cardinality(inflight) < MaxInflight
  /\ inflight' = inflight \cup statusUpdateCalls(selectedRequest.v.id, status)
  /\ inflight' # inflight
  /\ UNCHANGED <<selectedRequestId, viewMode, confirmAction>>
  /\ UNCHANGED notList

\* handleStatusUpdate after the await:
\* setRequests(prev => prev.map(r => r.id === id ? updatedReq : r))
statusUpdateDone(call) ==
  /\ call \in inflight
  /\ requests' = [i \in 1..Len(requests) |->
                    IF requests[i].id = call.id THEN call.updatedReq
                    ELSE requests[i]]
  /\ inflight' = inflight \ {call}
  /\ UNCHANGED <<selectedRequestId, viewMode, confirmAction>>
  /\ UNCHANGED <<evalVars, itemVars, currentUser, dbVars, cfgVars, roleVars,
                 lifeVars, queueVars>>

Statuses == {"APPROVED", "REJECTED"}

NextFlow ==
  \/ \E k \in 1..Len(MOCK_USERS) : handleUserSwitch(MOCK_USERS[k])
  \/ \E tab \in FlowTabs : setActiveTab(tab)
  \/ \E i \in 1..Len(requests) : selectRequest(requests[i].id)
  \/ onBack
  \/ \E mode \in {"audit", "my"} : setViewMode(mode)
  \/ \E i \in 1..Len(requests) : \E status \in Statuses :
        handleInitiateAction(requests[i].id, status)
  \/ handleCancelAction
  \/ handleConfirmAction
  \/ \E status \in Statuses \cup {"WITHDRAWN"} : detailAction(status)
  \/ \E call \in inflight : statusUpdateDone(call)

SpecFlow == InitFlow /\ [][NextFlow]_vars

-----------------------------------------------------------------------------
(* Properties of evaluateRules, checked on SpecEval *)

\* the rule of the catalog with the given id (ids are unique in a catalog)
RuleById(rs, id) == rs[CHOOSE i \in 1..Len(rs) : rs[i].id = id]

\* a rule whose own conditions (receipt type, kind) are met by the document
ConditionMet(rule) == ~notApplicable(rule, data) /\ violation(rule, data, hostZone)

\* C1: with activeRuleIds given, every triggered id is a member of it, and
\* with the empty list the result is passed, no triggered rule, score 0
C1_ActiveListStrict ==
  (pc = "done" /\ activeRuleIds.def) =>
     /\ \A i \in 1..Len(result.triggeredRules) :
           result.triggeredRules[i] \in Range(activeRuleIds.v)
     /\ activeRuleIds.v = <<>> =>
           result = [passed |-> TRUE, triggeredRules |-> <<>>, score |-> 0]

\* an enabled rule outside the list has its condition met and is left out,
\* while a listed rule is triggered
C1_Witness ==
  /\ pc = "done" /\ activeRuleIds.def
  /\ \E i \in 1..Len(rules) :
        /\ rules[i].enabled /\ ConditionMet(rules[i])
        /\ rules[i].id \notin Range(activeRuleIds.v)
        /\ rules[i].id \notin Range(result.triggeredRules)
  /\ Len(result.triggeredRules) > 0

\* the ids of the enabled rules, in catalog order
EnabledIds(rs) ==
  LET en == SelectSeq(rs, LAMBDA r : r.enabled)
  IN  [i \in 1..Len(en) |-> en[i].id]

\* C2: omitting activeRuleIds gives the result of passing the ids of all
\* enabled rules
C2_OmittedIsAllEnabled ==
  (pc = "done" /\ ~activeRuleIds.def) =>
     result = evaluateRules(data, rules, Some(EnabledIds(rules)), hostZone)

C2_Witness ==
  /\ pc = "done" /\ ~activeRuleIds.def
  /\ Len(result.triggeredRules) > 0
  /\ \E i \in 1..Len(rules) : ~rules[i].enabled

\* the weight table as the specification states it
SpecWeight(type) ==
  CASE type = FORBIDDEN_CATEGORY -> 100
    [] type = MAX_AMOUNT         -> 60
    [] type = WEEKEND_BAN        -> 30
    [] type = REQUIRED_FIELD     -> 20

RECURSIVE WeightSum(_, _)
WeightSum(rs, ids) ==
  IF ids = <<>> THEN 0
  ELSE SpecWeight(RuleById(rs, Head(ids)).type) + WeightSum(rs, Tail(ids))

\* C3: the score is the sum of the triggered rules' weights, capped at 100
C3_ScoreIsClampedWeightSum ==
  pc = "done" =>
     result.score = Min(100, WeightSum(rules, result.triggeredRules))

\* a MaxAmount and a ForbiddenCategory violation together score exactly 100
C3_Witness ==
  /\ pc = "done"
  /\ Len(result.triggeredRules) = 2
  /\ { RuleById(rules, id).type : id \in Range(result.triggeredRules) }
        = {MAX_AMOUNT, FORBIDDEN_CATEGORY}
  /\ result.score = 100

\* C4: passed is true exactly when no rule was triggered
C4_PassedIffNoneTriggered ==
  pc = "done" => (result.passed <=> result.triggeredRules = <<>>)

C4_Witness ==
  /\ pc = "done"
  /\ ~result.passed
  /\ Len(result.triggeredRules) = 1

\* C5: a disabled rule is never triggered and never adds to the score: the
\* result is that of the catalog without its disabled rules
C5_DisabledNeverCounts ==
  pc = "done" =>
     /\ \A i \in 1..Len(rules) :
           ~rules[i].enabled => rules[i].id \notin Range(result.triggeredRules)
     /\ result = evaluateRules(data, SelectSeq(rules, LAMBDA r : r.enabled),
                               activeRuleIds, hostZone)

\* a disabled rule that is listed in activeRuleIds and whose condition the
\* document meets
C5_Witness ==
  /\ pc = "done" /\ activeRuleIds.def
  /\ \E i \in 1..Len(rules) :
        /\ ~rules[i].enabled /\ ConditionMet(rules[i])
        /\ rules[i].id \in Range(activeRuleIds.v)
  /\ result.score = 0

\* the host zones a deployment may run in (hours from UTC)
AllZones == {-8, 0, 8}

\* C10: the result of an evaluation does not depend on the host's time zone
C10_SameResultInEveryZone ==
  pc = "done" =>
     \A z \in AllZones : evaluateRules(data, rules, activeRuleIds, z) = result

\* C22: for a fixed document and catalog, a list B that holds every id of
\* the list A yields every triggered id A yields and a score that is not
\* lower; both scores are integers in 0..100.
C22_MonotoneInActiveIds ==
  (pc = "done" /\ activeRuleIds.def) =>
    \A B \in ActiveLists :
      (B.def /\ Range(activeRuleIds.v) \subseteq Range(B.v)) =>
        LET rb == evaluateRules(data, rules, B, hostZone)
        IN  /\ Range(result.triggeredRules) \subseteq Range(rb.triggeredRules)
            /\ result.score <= rb.score
            /\ result.score \in 0..100
            /\ rb.score \in 0..100

\* a one-id list with a violation, and a longer list that scores higher
C22_Witness ==
  /\ pc = "done"
  /\ activeRuleIds = Some(<<IdOf(1)>>)
  /\ result.triggeredRules = <<IdOf(1)>>
  /\ result.score <
       evaluateRules(data, rules, Some(<<IdOf(1), IdOf(2)>>), hostZone).score

\* Array.prototype.reverse
RECURSIVE reverse(_)
reverse(s) == IF s = <<>> THEN <<>> ELSE Append(reverse(Tail(s)), Head(s))

\* the catalog ids that are members of an activeRuleIds list
Members(active, rs) == Range(active.v) \cap { rs[i].id : i \in DOMAIN rs }

\* C23: the result depends on activeRuleIds only through which catalog ids
\* are members of it: the list reversed, the list with every id repeated,
\* the list with a dangling id added in front or at the end, and any other
\* list with the same catalog members give the same result.
C23_OnlyMembershipCounts ==
  (pc = "done" /\ activeRuleIds.def) =>
    LET v == activeRuleIds.v
        same(l) == evaluateRules(data, rules, Some(l), hostZone) = result
    IN  /\ same(reverse(v))
        /\ same(v \o v)
        /\ same(v \o reverse(v))
        /\ same(Append(v, DanglingId))
        /\ same(<<DanglingId>> \o v)
        /\ \A B \in ActiveLists :
             (B.def /\ Members(B, rules) = Members(activeRuleIds, rules))
               => evaluateRules(data, rules, B, hostZone) = result

\* a list of two catalog ids and the dangling id, with a violation recorded
C23_Witness ==
  /\ pc = "done"
  /\ activeRuleIds = Some(<<IdOf(1), IdOf(2), DanglingId>>)
  /\ Len(result.triggeredRules) = 2

-----------------------------------------------------------------------------
(* Properties of the rule kinds, checked on SpecKind *)

\* the rule at position i is evaluated: enabled, a candidate of the call,
\* and its receipt type (if any) occurs in the document's type
Evaluated(i) ==
  /\ rules[i].enabled
  /\ activeRuleIds.def => rules[i].id \in Range(activeRuleIds.v)
  /\ \/ rules[i].receiptType \in {<<>>, ALL}
     \/ includes(data.type, rules[i].receiptType)

Triggered(i) == rules[i].id \in Range(result.triggeredRules)

\* s names a day of the calendar
ValidDate(s) ==
  /\ IsIsoDate(s)
  /\ LET y == DigitsToNat(SubSeq(s, 1, 4))
         m == DigitsToNat(SubSeq(s, 6, 7))
         d == DigitsToNat(SubSeq(s, 9, 10))
     IN  m \in 1..12 /\ d \in 1..DaysInMonth(y, m)

\* the day of the week of a calendar date (0 Sunday .. 6 Saturday)
CivilWeekday(s) ==
  LET days == DaysFromCivil(DigitsToNat(SubSeq(s, 1, 4)),
                            DigitsToNat(SubSeq(s, 6, 7)),
                            DigitsToNat(SubSeq(s, 9, 10)))
  IN  (days + 4) % 7

\* C11: an evaluated WeekendBan rule is violated exactly when the document's
\* date is a valid calendar date that is a Saturday or a Sunday
C11_WeekendBanIffWeekendDate ==
  pc = "done" =>
     \A i \in 1..Len(rules) :
        (rules[i].type = WEEKEND_BAN /\ Evaluated(i)) =>
           (Triggered(i) <=>
              (ValidDate(data.date) /\ CivilWeekday(data.date) \in {0, 6}))

\* the threshold of a MaxAmount rule, when it is a number or a digit string
IsNumeric(v) ==
  \/ v.t = "number"
  \/ v.t = "string" /\ \A k \in 1..Len(v.s) : IsDigit(v.s[k])

AsNumber(v) == IF v.t = "number" THEN v.n ELSE DigitsToNat(v.s)

\* C12: an evaluated MaxAmount rule is violated exactly when the amount is
\* strictly greater than the threshold; an equal amount is compliant, and a
\* threshold of 0 flags the amount 1 but not the amount 0
C12_MaxAmountIffStrictlyGreater ==
  pc = "done" =>
     \A i \in 1..Len(rules) :
        (rules[i].type = MAX_AMOUNT /\ Evaluated(i)) =>
           (Triggered(i) <=>
              /\ data.totalAmount.t = "number"
              /\ IsNumeric(rules[i].value)
              /\ data.totalAmount.n > AsNumber(rules[i].value))

\* the amount equals the threshold and the evaluated rule is not triggered
C12_Witness ==
  /\ pc = "done"
  /\ Len(rules) = 1 /\ rules[1].type = MAX_AMOUNT /\ Evaluated(1)
  /\ rules[1].value = StrV(<<"6", "0">>)
  /\ data.totalAmount = NumV(60)
  /\ result.passed

\* C13: an evaluated ForbiddenCategory rule is violated exactly when the
\* lower-cased category label contains the lower-cased token, for every
\* label and token, the empty ones included
C13_ForbiddenIffContains ==
  pc = "done" =>
     \A i \in 1..Len(rules) :
        (rules[i].type = FORBIDDEN_CATEGORY /\ Evaluated(i)) =>
           (Triggered(i) <=>
              includes(toLowerCase(data.category),
                       toLowerCase(String(rules[i].value))))

\* C14: an evaluated RequiredField rule is violated exactly when its token
\* is 'Merchant' and the merchant name is empty, 'Unknown' or the Chinese
\* placeholder; with another token it is never violated
C14_RequiredFieldOnlyMerchant ==
  pc = "done" =>
     \A i \in 1..Len(rules) :
        (rules[i].type = REQUIRED_FIELD /\ Evaluated(i)) =>
           (Triggered(i) <=>
              /\ rules[i].value = StrV(Merchant)
              /\ data.merchantName \in {<<>>, Unknown, WeiZhi})

\* a rule with another token on a document without merchant name passes
C14_Witness ==
  /\ pc = "done"
  /\ Len(rules) = 1 /\ rules[1].type = REQUIRED_FIELD /\ Evaluated(1)
  /\ rules[1].value # StrV(Merchant)
  /\ data.merchantName = <<>>
  /\ result.passed

\* the receipt-type filter skips the rule
Filtered(rule) ==
  /\ rule.receiptType # <<>>
  /\ rule.receiptType # ALL
  /\ ~includes(data.type, rule.receiptType)

\* C15: a rule with a receipt type other than 'ALL' is neither triggered nor
\* scored when the document's type does not contain that token in the same
\* case, a document without type included; a rule with 'ALL' or without
\* receipt type is triggered whenever it is enabled, a candidate and violated
C15_ReceiptTypeFilter ==
  pc = "done" =>
     /\ \A i \in 1..Len(rules) : Filtered(rules[i]) => ~Triggered(i)
     /\ (\A i \in 1..Len(rules) : Filtered(rules[i])) =>
           result = [passed |-> TRUE, triggeredRules |-> <<>>, score |-> 0]
     /\ \A i \in 1..Len(rules) :
           rules[i].receiptType \in {<<>>, ALL} =>
              (Triggered(i) <=>
                 /\ rules[i].enabled
                 /\ activeRuleIds.def => rules[i].id \in Range(activeRuleIds.v)
                 /\ violation(rules[i], data, hostZone))

\* the document's type holds the token in another case only, and the rule,
\* whose threshold the amount exceeds, is skipped
C15_Witness ==
  /\ pc = "done"
  /\ Len(rules) = 1 /\ rules[1].enabled /\ ~activeRuleIds.def
  /\ rules[1].type = MAX_AMOUNT /\ rules[1].value = NumV(0)
  /\ data.totalAmount = NumV(1)
  /\ rules[1].receiptType = <<"T">> /\ data.type = <<"t">>
  /\ result.passed /\ result.score = 0

\* t is a subsequence of s
IsSubsequence(t, s) ==
  \E f \in [1..Len(t) -> 1..Len(s)] :
     /\ \A k \in 1..Len(t) : s[f[k]] = t[k]
     /\ \A k \in 1..(Len(t) - 1) : f[k] < f[k + 1]

\* C16: triggeredRules is a subsequence of the catalog's ids, holds every
\* violated rule, and holds no id twice
C16_TriggeredInCatalogOrderOnce ==
  pc = "done" =>
     /\ IsSubsequence(result.triggeredRules, IdsOf(rules))
     /\ \A i \in 1..Len(rules) :
           (Evaluated(i) /\ violation(rules[i], data, hostZone)) => Triggered(i)
     /\ \A j, k \in 1..Len(result.triggeredRules) :
           j # k => result.triggeredRules[j] # result.triggeredRules[k]

\* the rule cannot be judged on this document: its kind is unknown, or the
\* field or the type it reads is missing or malformed
Affected(rule) ==
  \/ rule.type \notin RuleType
  \/ rule.type = WEEKEND_BAN /\ ~ValidDate(data.date)
  \/ rule.type = MAX_AMOUNT /\ data.totalAmount = Missing
  \/ rule.type = FORBIDDEN_CATEGORY /\ data.category = <<>>
  \/ rule.receiptType \notin {<<>>, ALL} /\ data.type = <<>>

\* C17: the call returns an AuditResult (a boolean, a list of catalog ids, a
\* score in 0..100) for every rule and document, and a rule of unknown kind
\* or one whose field is missing or malformed adds no violation and no score
C17_NeverFails ==
  pc = "done" =>
     /\ result.passed \in BOOLEAN
     /\ result.score \in 0..100
     /\ Range(result.triggeredRules) \subseteq Range(IdsOf(rules))
     /\ \A i \in 1..Len(rules) : Affected(rules[i]) => ~Triggered(i)
     /\ (\A i \in 1..Len(rules) : Affected(rules[i])) =>
           result = [passed |-> TRUE, triggeredRules |-> <<>>, score |-> 0]

\* an enabled rule of unknown kind was evaluated on a document without type
C17_Witness ==
  /\ pc = "done"
  /\ Len(rules) = 1 /\ rules[1].type = CUSTOM /\ Evaluated(1)
  /\ data.type = <<>>
  /\ result = [passed |-> TRUE, triggeredRules |-> <<>>, score |-> 0]

-----------------------------------------------------------------------------
(* Properties of the category resolver, checked on SpecReview *)

\* the positions of the categories named exactly as the item's category
NamedAs(name) == { i \in 1..Len(requestTypes) : requestTypes[i].name = name }

\* the ids of the enabled rules whose own condition the document meets
MetIds ==
  LET met == SelectSeq(rules, LAMBDA r : r.enabled /\ ConditionMet(r))
  IN  [i \in 1..Len(met) |-> met[i].id]

\* C6: the resolver hands on the linkedRuleIds of the category with exactly
\* the item's category name, and undefined (never an empty list) when there
\* is none: then every enabled rule is a candidate, while a known category
\* with an empty list leaves no candidate
C6_ResolverKeepsUndefined ==
  /\ NamedAs(requestType) = {} =>
        activeRuleIds = Undefined /\ result.triggeredRules = MetIds
  /\ NamedAs(requestType) # {} =>
        \E i \in NamedAs(requestType) :
           activeRuleIds = requestTypes[i].linkedRuleIds
  /\ (NamedAs(requestType) # {} /\ activeRuleIds = Some(<<>>)) =>
        result = [passed |-> TRUE, triggeredRules |-> <<>>, score |-> 0]
  /\ itemStatus = "completed" => requests[1].auditResult = result

\* submitted under a name that differs only in case from a category whose
\* list is empty: the unknown name evaluates with all enabled rules
C6_Witness ==
  /\ itemStatus = "completed"
  /\ requestType = "Daily"
  /\ Len(requestTypes) > 0
  /\ requestTypes[1].name = "daily"
  /\ requestTypes[1].linkedRuleIds = Some(<<>>)
  /\ activeRuleIds = Undefined
  /\ Len(requests[1].auditResult.triggeredRules) > 0

-----------------------------------------------------------------------------
(* Properties of the linkage migration, checked on SpecMig *)

\* C7: once db.init has completed, every stored category has an explicit
\* linkedRuleIds list
C7_EveryCategoryLinkedAfterInit ==
  initialized => \A i \in 1..Len(tblTypes) : tblTypes[i].linkedRuleIds.def

\* C8: once db.init has completed, a category that had a linkedRuleIds list
\* when db.init started still has exactly that list
C8_ExistingLinksKept ==
  initialized =>
     \A i \in 1..Len(preTypes) :
        preTypes[i].linkedRuleIds.def =>
           \E j \in 1..Len(tblTypes) :
              /\ tblTypes[j].id = preTypes[i].id
              /\ tblTypes[j].linkedRuleIds = preTypes[i].linkedRuleIds

\* the ids of the stored rules whose legacy tag is absent, 'ALL' or the id
\* of the category
TaggedFor(typeId) ==
  { tblRules[k].id : k \in { n \in 1..Len(tblRules) :
       tblRules[n].linkedRequestType \in {"", "ALL", typeId} } }

\* C18: the list the linkage migration derives for a category holds the ids
\* of the rules whose legacy tag is absent, 'ALL' or that category's id, and
\* of no other rule
C18_MigrationLinksByLegacyTag ==
  dbPc \in {"delete", "insert"} =>
     \A i \in 1..Len(updatedTypes) :
        /\ updatedTypes[i].linkedRuleIds.def
        /\ Range(updatedTypes[i].linkedRuleIds.v) = TaggedFor(updatedTypes[i].id)

\* a category's derived list takes the rule tagged with its id and leaves
\* out the rule tagged with another category's id
C18_Witness ==
  /\ dbPc = "insert"
  /\ \E i \in 1..Len(updatedTypes) : \E k, n \in 1..Len(tblRules) :
        /\ tblRules[k].linkedRequestType = updatedTypes[i].id
        /\ tblRules[n].linkedRequestType \notin {"", "ALL", updatedTypes[i].id}
        /\ updatedTypes[i].linkedRuleIds = Some(<<tblRules[k].id>>)

\* every stored category has a linkedRuleIds list
AllLinked(types) ==
  Len(types) > 0 /\ \A i \in 1..Len(types) : types[i].linkedRuleIds.def

\* C19: on a stored catalog in which every category has a list (as the
\* migration leaves it, empty lists and later edits included) no step of
\* db.init changes the category table
C19_MigrationRunsOnce ==
  [][AllLinked(tblTypes) => tblTypes' = tblTypes]_vars

\* db.init has run to its end on a catalog with an empty list and a
\* non-empty one, and the catalog is as it was
C19_Witness ==
  /\ initialized /\ dbPc = "idle"
  /\ AllLinked(preTypes)
  /\ tblTypes = preTypes
  /\ \E i, j \in 1..Len(tblTypes) :
        /\ tblTypes[i].linkedRuleIds = Some(<<>>)
        /\ tblTypes[j].linkedRuleIds = Some(<<IdOf(1)>>)
  /\ Len(tblRules) > 0

\* the ids and names of the categories, in table order
IdNames(types) ==
  [i \in 1..Len(types) |-> [id |-> types[i].id, name |-> types[i].name]]

\* C20: the delete-then-reinsert of the linkage migration leaves the rule
\* table as it is, and when db.init returns, normally or through its catch,
\* the category table holds the categories it held before
C20_MigrationDropsNothing ==
  [][(dbPc \in {"delete", "insert"}) =>
        ((tblRules' = tblRules) /\
         (dbPc' = "idle" => IdNames(tblTypes') = IdNames(preTypes)))]_vars

-----------------------------------------------------------------------------
(* Properties of the configuration handlers, checked on SpecCfg *)

\* C9: no category's linkedRuleIds holds the id of a rule that was deleted
\* from the catalog
C9_NoDeletedRuleLinked ==
  \A j \in 1..Len(requestTypes) :
     requestTypes[j].linkedRuleIds.def =>
        Range(requestTypes[j].linkedRuleIds.v) \cap deletedIds = {}

\* C24: category names are unique within the catalog: after any sequence
\* of add-category and save-edit operations on the seeded categories no two
\* categories have the same name, so a name resolves to at most one category.
C24_CategoryNamesUnique ==
  \A i, j \in 1..Len(requestTypes) :
     (requestTypes[i].name = requestTypes[j].name) => (i = j)

\* the first category has been renamed to the second default name and a
\* category has been added under the name that became free
C24_Witness ==
  /\ Len(requestTypes) = 2
  /\ requestTypes[1].id = TypeIdOf(1)
  /\ requestTypes[1].name = TypeNameOf(2)
  /\ requestTypes[2].name = TypeNameOf(1)

-----------------------------------------------------------------------------
(* Properties of the configuration under the user switcher, on SpecRole *)

\* C30: only an administrator changes the configuration: a step taken
\* while the current user's role is not ADMIN leaves the rule catalog and
\* every category (its presence, name and linkedRuleIds) as they were.
C30_OnlyAdminChangesConfig ==
  [][(currentUser.role # "ADMIN")
       => (rules' = rules /\ requestTypes' = requestTypes)]_vars

-----------------------------------------------------------------------------
(* Properties of the stored and loaded category catalog, on SpecLife *)

\* the category ids of a catalog
TypeIds(types) == { types[j].id : j \in 1..Len(types) }

\* the category has an explicit linkedRuleIds list in the catalog
HasList(types, id) ==
  \E j \in 1..Len(types) : types[j].id = id /\ types[j].linkedRuleIds.def

\* the category is in the catalog without linkedRuleIds
IsLegacy(types, id) ==
  \E j \in 1..Len(types) : types[j].id = id /\ ~types[j].linkedRuleIds.def

-----------------------------------------------------------------------------
(* Properties of the request workflow, on SpecFlow *)

RoleOf(userId) ==
  (CHOOSE k \in 1..Len(MOCK_USERS) : MOCK_USERS[k].id = userId) 

\* every approve or reject entry of the request is made by an auditor or
\* administrator other than the submitter
DecidedByOthers(req) ==
  \A n \in 1..Len(req.history) :
     (req.history[n].status \in {"APPROVED", "REJECTED"}) =>
        /\ MOCK_USERS[RoleOf(req.history[n].actor)].role \in {"AUDITOR", "ADMIN"}
        /\ req.history[n].actor # req.employeeId

\* C26: a request is approved or rejected only by an AUDITOR or ADMIN who
\* is not its submitter: the approve and reject buttons are offered only
\* then, and no request, stored or in an update under way, has an approve
\* or reject entry made by its submitter or by an EMPLOYEE.
C26_ApprovalOnlyByOtherAuditor ==
  /\ \A i \in 1..Len(requests) : DecidedByOthers(requests[i])
  /\ \A call \in inflight : DecidedByOthers(call.updatedReq)
  /\ \A i \in 1..Len(requests) :
        (activeTab = "requests" /\ selectedRequest = Some(requests[i])
           /\ detailButtons(requests[i]) \cap {"APPROVED", "REJECTED"} # {})
          => (currentUser.role \in {"AUDITOR", "ADMIN"}
                /\ requests[i].employeeId # currentUser.id)

\* the employee's request has been approved by the auditor, and the auditor
\* has their own pending request open in the detail view
C26_Witness ==
  /\ requests[1].status = "APPROVED"
  /\ requests[1].history[2].actor = "u2"
  /\ currentUser = MOCK_USERS[2]
  /\ activeTab = "requests"
  /\ selectedRequest = Some(requests[2])
  /\ requests[2].status = "PENDING"

FinalStatuses == {"APPROVED", "REJECTED", "WITHDRAWN"}

\* C27: APPROVED, REJECTED and WITHDRAWN are terminal: no step changes the
\* status of a request that has one of them, a step of a second update
\* started while the first was waiting for the database write included.
C27_FinalStatusesTerminal ==
  [][\A i \in 1..Len(requests) :
        (requests[i].status \in FinalStatuses)
          => (requests'[i].status = requests[i].status)]_vars

\* C28: the history is append-only and complete: a call of
\* handleStatusUpdate adds one entry with the new status and the current
\* user as actor; a step leaves a request's history as it is or extends it
\* by one entry whose status is the request's new status, also when two
\* updates overlap; the status equals the status of the last entry.
C28_HistoryAppendOnly ==
  [][/\ \A call \in inflight' \ inflight :
          /\ findRequest(requests, call.id).def
          /\ call.updatedReq.history =
               Append(findRequest(requests, call.id).v.history,
                      [actor |-> currentUser.id,
                       status |-> call.updatedReq.status])
     /\ \A i \in 1..Len(requests) :
          LET h  == requests[i].history
              h2 == requests'[i].history
          IN  /\ requests[i].status = h[Len(h)].status
              /\ \/ h2 = h /\ requests'[i].status = requests[i].status
                 \/ /\ Len(h2) = Len(h) + 1
                    /\ SubSeq(h2, 1, Len(h)) = h
                    /\ h2[Len(h2)].status = requests'[i].status]_vars

-----------------------------------------------------------------------------
(* SpecQueue: the upload queue of UploadReceipt across page loads.  The    *)
(* page loads on a new database, the user opens the upload page, adds      *)
(* files and starts processQueue; each await of processQueue and of        *)
(* processFiles is a step, and so is the firing of the auto-save timer.    *)
(* The user may leave the page or load it again at any moment.  One        *)
(* processQueue and one processFiles run at a time; the review form and    *)
(* the submission of an analysed item are the subject of SpecReview.       *)

MaxItems == 2

QueueTabs == {"dashboard", "upload"}

\* Math.random().toString(36).substr(2, 9): an id not handed out before
ItemIdOf(n) == "i" \o ToString(n)

\* the document extractReceiptData returns
Extracted ==
  CHOOSE d \in ReviewDocuments : d.totalAmount = NumV(2001) /\ d.category = Yule

\* a queue item as processFiles builds it; the batch's category is the
\* first category of the catalog
QueueItem(id) ==
  [id |-> id, file |-> TRUE, status |-> "pending", data |-> Undefined,
   requestType |-> TypeNameOf(1), auditViolations |-> Undefined,
   error |-> Undefined]

\* the page is loaded for the first time: no database, no draft
InitQueue ==
  /\ tblRules = <<>> /\ tblTypes = <<>>
  /\ initialized = FALSE
  /\ dbPc = "idle" /\ updatedTypes = <<>> /\ preTypes = <<>>
  /\ data = CHOOSE d \in Documents : TRUE
  /\ rules = <<>> /\ requestTypes = <<>> /\ activeRuleIds = Undefined
  /\ hostZone = 8 /\ result = NoResult /\ pc = "ready"
  /\ InitItem /\ InitApp /\ InitConfig
  /\ InitExt("dashboard", FALSE)

\* renderContent: case 'upload', once the loading screen is gone
UploadShown == isDbReady /\ activeTab = "upload"

notQueue == <<evalVars, itemVars, appVars, dbVars, cfgVars, roleVars, lifeVars,
              flowVars>>

\* processFiles up to its first await: setIsParsingFiles(true)
processFilesStart ==
  /\ step = "upload"
  /\ ~isParsingFiles
  /\ madeItems < MaxItems
  /\ isParsingFiles' = TRUE
  /\ UNCHANGED <<items, activeItemId, step, isProcessing, saveTimer, run,
                 drafts, madeItems>>
  /\ UNCHANGED notQueue

\* processFiles after the file is read: setItems(prev => [...prev,
\* ...newItems]); setIsParsingFiles(false)
processFilesDone ==
  /\ isParsingFiles
  /\ items' = Append(items, QueueItem(ItemIdOf(madeItems + 1)))
  /\ madeItems' = madeItems + 1
  /\ isParsingFiles' = FALSE
  /\ saveTimer' = TRUE
  /\ UNCHANGED <<activeItemId, step, isProcessing, run, drafts>>
  /\ UNCHANGED notQueue

\* items.filter(i => i.status === 'pending' || i.status === 'error')
itemsToProcess(its) ==
  SelectSeq(its, LAMBDA i : i.status = "pending" \/ i.status = "error")

\* prev.map(i => i.id === item.id
\*                 ? {...i, status: 'analyzing', error: undefined} : i)
setAnalyzing(its, id) ==
  [k \in 1..Len(its) |->
     IF its[k].id = id
     THEN [its[k] EXCEPT !.status = "analyzing", !.error = Undefined]
     ELSE its[k]]

\* items.find(i => i.id === activeItemId) || items[0]
activeItem ==
  LET found == SelectSeq(items, LAMBDA i : i.id = activeItemId)
  IN  IF Len(found) > 0 THEN found[1] ELSE items[1]

\* the start button of the upload step is enabled
startEnabled ==
  /\ step = "upload" /\ Len(items) > 0
  /\ ~isProcessing /\ ~isParsingFiles
  /\ \E k \in 1..Len(items) : items[k].status = "pending"

\* the retry button of the review step is rendered
retryShown ==
  /\ step = "review" /\ Len(items) > 0
  /\ activeItem.status = "error"

\* processQueue up to its first await: setIsProcessing(true), the items to
\* process are chosen, the first of them is marked
processQueue ==
  /\ startEnabled \/ retryShown
  /\ ~run.def
  /\ LET todo == itemsToProcess(items)
     IN  /\ items' = setAnalyzing(items, todo[1].id)
         /\ run' = Some([todo |-> todo, activeItemId |-> activeItemId])
  /\ isProcessing' = TRUE
  /\ saveTimer' = TRUE
  /\ UNCHANGED <<activeItemId, step, isParsingFiles, drafts, madeItems>>
  /\ UNCHANGED notQueue

\* the setItems of the try block (ok) or of the catch block
settle(its, item, ok) ==
  LET ids == getActiveRulesForType(requestTypes, item.requestType)
      res == evaluateRules(Extracted, rules, ids, hostZone)
  IN  [k \in 1..Len(its) |->
         IF its[k].id # item.id THEN its[k]
         ELSE IF ok
              THEN [its[k] EXCEPT !.status = "reviewing",
                                  !.data = Some(Extracted),
                                  !.auditViolations = Some(res.triggeredRules)]
              ELSE [its[k] EXCEPT !.status = "error",
                                  !.error = Some("failed")]]

\* extractReceiptData returns (ok) or throws: the item is settled; the loop
\* marks the next item, or processQueue ends with setIsProcessing(false),
\* setStep('review') and the choice of the active item
extractDone(ok) ==
  /\ run.def
  /\ LET item == run.v.todo[1]
         rest == Tail(run.v.todo)
         settled == settle(items, item, ok)
         reviewing == SelectSeq(settled, LAMBDA i : i.status = "reviewing")
     IN  IF Len(rest) > 0
         THEN /\ items' = setAnalyzing(settled, rest[1].id)
              /\ run' = Some([run.v EXCEPT !.todo = rest])
              /\ UNCHANGED <<activeItemId, step, isProcessing>>
         ELSE /\ items' = settled
              /\ run' = Undefined
              /\ isProcessing' = FALSE
              /\ step' = "review"
              /\ activeItemId' =
                   IF Len(reviewing) > 0 /\ run.v.activeItemId = NoId
                   THEN reviewing[1].id ELSE activeItemId
  /\ saveTimer' = TRUE
  /\ UNCHANGED <<isParsingFiles, drafts, madeItems>>
  /\ UNCHANGED notQueue

\* items.map(({ file, ...rest }) => rest), through JSON
withoutFile(its) == [k \in 1..Len(its) |-> [its[k] EXCEPT !.file = FALSE]]

\* the auto-save timer fires, 500 ms after the last change of items
autoSave ==
  /\ saveTimer
  /\ drafts' = IF Len(items) > 0 THEN Some(withoutFile(items)) ELSE Undefined
  /\ saveTimer' = FALSE
  /\ UNCHANGED <<items, activeItemId, step, isProcessing, isParsingFiles, run,
                 madeItems>>
  /\ UNCHANGED notQueue

\* the timer fires and localStorage.setItem throws (quota): catch logs
autoSaveThrows ==
  /\ saveTimer
  /\ Len(items) > 0
  /\ saveTimer' = FALSE
  /\ UNCHANGED <<items, activeItemId, step, isProcessing, isParsingFiles, run,
                 drafts, madeItems>>
  /\ UNCHANGED notQueue

\* the bin button of an item in the upload step
handleDeleteItem(id) ==
  /\ step = "upload"
  /\ items' = SelectSeq(items, LAMBDA i : i.id # id)
  /\ activeItemId' = IF activeItemId = id THEN NoId ELSE activeItemId
  /\ saveTimer' = TRUE
  /\ UNCHANGED <<step, isProcessing, isParsingFiles, run, drafts, madeItems>>
  /\ UNCHANGED notQueue

\* the clear button: setItems([]); localStorage.removeItem(STORAGE_KEY);
\* setStep('upload')
clearList ==
  /\ step = "upload" /\ Len(items) > 0
  /\ ~isProcessing /\ ~isParsingFiles
  /\ items' = <<>>
  /\ drafts' = Undefined
  /\ step' = "upload"
  /\ saveTimer' = TRUE
  /\ UNCHANGED <<activeItemId, isProcessing, isParsingFiles, run, madeItems>>
  /\ UNCHANGED notQueue

\* the back arrow of the review step: setStep('upload')
backToUpload ==
  /\ step = "review"
  /\ step' = "upload"
  /\ UNCHANGED <<items, activeItemId, isProcessing, isParsingFiles, saveTimer,
                 run, drafts, madeItems>>
  /\ UNCHANGED notQueue

\* an item of the review step's queue is clicked
setActiveItemId(id) ==
  /\ step = "review"
  /\ id # activeItemId
  /\ activeItemId' = id
  /\ UNCHANGED <<items, step, isProcessing, isParsingFiles, saveTimer, run,
                 drafts, madeItems>>
  /\ UNCHANGED notQueue

NextQueue ==
  \/ dbInitStart \/ dbInitRules \/ dbInitTypes \/ dbInitMigrate
  \/ initData
  \/ \E tab \in QueueTabs : isDbReady /\ setActiveTab(tab)
  \/ isDbReady /\ handleUserSwitch(MOCK_USERS[2])
  \/ UploadShown /\ processFilesStart
  \/ UploadShown /\ processFilesDone
  \/ UploadShown /\ processQueue
  \/ \E ok \in BOOLEAN : UploadShown /\ extractDone(ok)
  \/ UploadShown /\ autoSave
  \/ UploadShown /\ autoSaveThrows
  \/ \E k \in 1..Len(items) : UploadShown /\ handleDeleteItem(items[k].id)
  \/ UploadShown /\ clearList
  \/ UploadShown /\ backToUpload
  \/ \E k \in 1..Len(items) : UploadShown /\ setActiveItemId(items[k].id)
  \/ pageReload

SpecQueue == InitQueue /\ [][NextQueue]_vars

\* what the scheduler guarantees: db.init and initData go on, a pending
\* timer fires, extractReceiptData settles; and the user runs processQueue
\* whenever a button for it is offered
SpecQueueFair ==
  /\ SpecQueue
  /\ WF_vars(dbInitStart \/ dbInitRules \/ dbInitTypes \/ dbInitMigrate)
  /\ WF_vars(initData)
  /\ WF_vars(UploadShown /\ (autoSave \/ autoSaveThrows))
  /\ WF_vars(\E ok \in BOOLEAN : UploadShown /\ extractDone(ok))
  /\ WF_vars(UploadShown /\ processQueue)

\* the status of the queue item with this id, "none" if the queue shown has
\* no such item
StatusOf(id) ==
  LET found == SelectSeq(items, LAMBDA i : i.id = id)
  IN  IF Len(found) > 0 THEN found[1].status ELSE "none"

\* C29: every queue item that enters 'analyzing' eventually becomes
\* 'reviewing' or 'error' (or leaves the queue), also in a queue restored
\* from the auto-saved draft after the page was loaded again while the item
\* was being analysed
C29_AnalyzingEventuallySettles ==
  \A n \in 1..MaxItems :
     (StatusOf(ItemIdOf(n)) = "analyzing")
        ~> (StatusOf(ItemIdOf(n)) \in {"reviewing", "error", "none"})

=============================================================================
